---------------------------- MODULE Spec2Model ----------------------------
(***************************************************************************)
(* Model of the validation engines and the application store of            *)
(* data-alchemist:                                                         *)
(*   src/lib/aiService.ts          ValidationEngine                        *)
(*   src/lib/crossFileValidation.ts CrossFileValidationEngine              *)
(*   src/store/useAppStore.ts      zustand store                           *)
(*   src/components/index.ts       FileUploadZone                          *)
(*                                                                         *)
(* A JavaScript string is a sequence of one-character strings, a row is a  *)
(* record whose domain is the set of its own keys (a missing field is a    *)
(* key outside the domain), a JavaScript array is a sequence.              *)
(***************************************************************************)
EXTENDS Integers, Sequences, FiniteSets, TLC

VARIABLES
    clients,        \* store: clients.data / the engine's this.clients
    workers,        \* store: workers.data / the engine's this.workers
    tasks,          \* store: tasks.data / the engine's this.tasks
    rules,          \* store: rules / the engine's this.businessRules
    uploadState,    \* store: uploadState of the three datasets
    mappedHeaders,  \* FileUploadZone: a mapping dialog is open
    pc,             \* FileUploadZone: the handler a zone is awaiting in
    nActions,       \* user actions taken so far
    reports,        \* outcomes of ValidationEngine.validateAll calls
    xreports,       \* outcomes of CrossFileValidationEngine.validateAll calls
    groupInput,     \* argument of groupValidationErrors
    groupCalls,     \* results of groupValidationErrors calls
    listInput,      \* an integer list and its separator, to be written
    listCalls       \* results of parsing the written list

vars == <<clients, workers, tasks, rules, uploadState, mappedHeaders, pc,
          nActions, reports, xreports, groupInput, groupCalls, listInput,
          listCalls>>

inputs == <<clients, workers, tasks, rules>>

-----------------------------------------------------------------------------
(* Bounds of the model.                                                    *)

MaxDupRows == 3      \* longest dataset in the duplicate-id inputs
MaxRefRows == 2      \* longest dataset in the reference inputs
MaxBadRows == 1      \* longest dataset in the malformed inputs
MaxExtensions == 1   \* times the task set is extended
MaxRules == 3        \* longest rule list drawn as an engine input
MaxCalls == 2        \* invocations of validateAll recorded per engine
MaxFindings == 4     \* longest list handed to groupValidationErrors
MaxUserActions == 4  \* user actions in a run of the application
MaxRangeRows == 2    \* longest dataset in the out-of-range inputs
MaxLoadRows == 3     \* longest dataset in the load inputs
MaxPhaseRows == 2    \* longest dataset in the phase inputs
MaxListLen == 3      \* longest integer list written and parsed

-----------------------------------------------------------------------------
(* JavaScript values.                                                      *)

\* the value read from a missing string field; no string equals it because
\* every element of a string is one character long
Undefined == <<"undefined">>

\* Number(...) of something that is not a number
NaN == -1000000

\* truthiness of a string-or-undefined value: `if (!x) return`
Truthy(s) == s # Undefined /\ s # <<>>

\* row[k], undefined when the key is missing
Get(row, k) == IF k \in DOMAIN row THEN row[k] ELSE Undefined

SeqToSet(s) == {s[i] : i \in 1..Len(s)}

\* Array.prototype.includes
Includes(arr, x) == \E i \in 1..Len(arr) : arr[i] = x

\* Array.prototype.filter: the elements whose index is in keepIdx, in order
RECURSIVE Filter(_, _)
Filter(arr, keepIdx) ==
    IF arr = <<>> THEN <<>>
    ELSE LET n == Len(arr)
             init == Filter(SubSeq(arr, 1, n - 1), keepIdx)
         IN IF n \in keepIdx THEN Append(init, arr[n]) ELSE init

\* [...new Set(arr)]: first occurrences, in insertion order
RECURSIVE Dedup(_)
Dedup(arr) ==
    IF arr = <<>> THEN <<>>
    ELSE LET n == Len(arr)
             init == Dedup(SubSeq(arr, 1, n - 1))
         IN IF Includes(init, arr[n]) THEN init ELSE Append(init, arr[n])

\* concatenation of a sequence of sequences: errors.push(...a); errors.push(...b)
RECURSIVE Flatten(_)
Flatten(ss) ==
    IF ss = <<>> THEN <<>> ELSE Head(ss) \o Flatten(Tail(ss))

-----------------------------------------------------------------------------
(* Strings.                                                                *)

Digits == <<"0", "1", "2", "3", "4", "5", "6", "7", "8", "9">>

IsDigit(c) == Includes(Digits, c)

DigitVal(c) == (CHOOSE i \in 1..10 : Digits[i] = c) - 1

\* String(n) of an integer
RECURSIVE NatStr(_)
NatStr(n) ==
    IF n < 10 THEN <<Digits[n + 1]>>
    ELSE Append(NatStr(n \div 10), Digits[(n % 10) + 1])

NumStr(n) ==
    IF n = NaN THEN <<"N", "a", "N">>
    ELSE IF n < 0 THEN <<"-">> \o NatStr(0 - n) ELSE NatStr(n)

Upper == <<"A", "B", "C", "D", "E", "F", "G", "H", "I", "J", "K", "L", "M",
           "N", "O", "P", "Q", "R", "S", "T", "U", "V", "W", "X", "Y", "Z">>
Lower == <<"a", "b", "c", "d", "e", "f", "g", "h", "i", "j", "k", "l", "m",
           "n", "o", "p", "q", "r", "s", "t", "u", "v", "w", "x", "y", "z">>

\* String.prototype.toLowerCase
ToLowerCase(s) ==
    [i \in 1..Len(s) |->
        IF Includes(Upper, s[i])
        THEN Lower[CHOOSE k \in 1..26 : Upper[k] = s[i]]
        ELSE s[i]]

IsSpace(c) == c = " "

\* String.prototype.trim
RECURSIVE TrimStart(_)
TrimStart(s) ==
    IF s # <<>> /\ IsSpace(Head(s)) THEN TrimStart(Tail(s)) ELSE s

RECURSIVE TrimEnd(_)
TrimEnd(s) ==
    IF s # <<>> /\ IsSpace(s[Len(s)]) THEN TrimEnd(SubSeq(s, 1, Len(s) - 1))
    ELSE s

Trim(s) == TrimEnd(TrimStart(s))

\* String.prototype.split on one-character separators (`split(',')`,
\* `split(/[,;]/)`, `split('-')`): always at least one piece
RECURSIVE Split(_, _)
Split(s, seps) ==
    IF \A i \in 1..Len(s) : s[i] \notin seps THEN <<s>>
    ELSE LET k == CHOOSE i \in 1..Len(s) :
                      s[i] \in seps /\ \A j \in 1..(i - 1) : s[j] \notin seps
         IN <<SubSeq(s, 1, k - 1)>> \o Split(SubSeq(s, k + 1, Len(s)), seps)

\* Array.prototype.join
RECURSIVE Join(_, _)
Join(arr, sep) ==
    IF arr = <<>> THEN <<>>
    ELSE IF Len(arr) = 1 THEN arr[1]
    ELSE arr[1] \o sep \o Join(Tail(arr), sep)

CommaSpace == <<",", " ">>

\* String.prototype.includes(sub)
StrIncludes(s, sub) ==
    \E i \in 0..(Len(s) - Len(sub)) : SubSeq(s, i + 1, i + Len(sub)) = sub

\* arr.map(s => s.trim())
MapTrim(arr) == [i \in 1..Len(arr) |-> Trim(arr[i])]

\* Number(str): the empty (or blank) string is 0, a decimal integer is its
\* value, anything else is NaN
RECURSIVE DigitsVal(_)
DigitsVal(s) ==
    IF s = <<>> THEN 0
    ELSE 10 * DigitsVal(SubSeq(s, 1, Len(s) - 1)) + DigitVal(s[Len(s)])

AllDigits(s) == s # <<>> /\ \A i \in 1..Len(s) : IsDigit(s[i])

NumberOfStr(str) ==
    LET s == Trim(str)
    IN IF s = <<>> THEN 0
       ELSE IF AllDigits(s) THEN DigitsVal(s)
       ELSE IF Head(s) \in {"-", "+"} /\ AllDigits(Tail(s))
            THEN (IF Head(s) = "-" THEN 0 - DigitsVal(Tail(s))
                  ELSE DigitsVal(Tail(s)))
       ELSE NaN

-----------------------------------------------------------------------------
(* JSON.parse over the characters the inputs are written with: white       *)
(* space, integers, strings without escapes, arrays and objects.  A parsed *)
(* value is a record tagged by t; ok = FALSE is the SyntaxError.           *)

JFail == [ok |-> FALSE, val |-> [t |-> "none"], pos |-> 0]

JOk(v, p) == [ok |-> TRUE, val |-> v, pos |-> p]

RECURSIVE SkipWs(_, _)
SkipWs(s, i) ==
    IF i <= Len(s) /\ IsSpace(s[i]) THEN SkipWs(s, i + 1) ELSE i

RECURSIVE DigitsEnd(_, _)
DigitsEnd(s, i) ==
    IF i <= Len(s) /\ IsDigit(s[i]) THEN DigitsEnd(s, i + 1) ELSE i

ParseNumber(s, i) ==
    LET j == IF s[i] = "-" THEN i + 1 ELSE i
    IN IF j > Len(s) \/ ~IsDigit(s[j]) THEN JFail
       ELSE LET e == IF s[j] = "0" THEN j + 1 ELSE DigitsEnd(s, j)
                m == DigitsVal(SubSeq(s, j, e - 1))
            IN JOk([t |-> "num", n |-> IF j > i THEN 0 - m ELSE m], e)

ParseString(s, i) ==
    IF \A k \in (i + 1)..Len(s) : s[k] # "\""
    THEN JFail
    ELSE LET k == CHOOSE k \in (i + 1)..Len(s) :
                      s[k] = "\"" /\ \A j \in (i + 1)..(k - 1) : s[j] # "\""
         IN JOk([t |-> "str", s |-> SubSeq(s, i + 1, k - 1)], k + 1)

RECURSIVE ParseValue(_, _)
RECURSIVE ParseElements(_, _, _)
RECURSIVE ParseMembers(_, _, _)

ParseElements(s, i, acc) ==
    LET v == ParseValue(s, i)
    IN IF ~v.ok THEN JFail
       ELSE LET k == SkipWs(s, v.pos)
                items == Append(acc, v.val)
            IN IF k > Len(s) THEN JFail
               ELSE IF s[k] = "," THEN ParseElements(s, k + 1, items)
               ELSE IF s[k] = "]"
                    THEN JOk([t |-> "arr", items |-> items], k + 1)
               ELSE JFail

ParseMembers(s, i, acc) ==
    LET j == SkipWs(s, i)
    IN IF j > Len(s) \/ s[j] # "\"" THEN JFail
       ELSE LET key == ParseString(s, j)
            IN IF ~key.ok THEN JFail
               ELSE LET c == SkipWs(s, key.pos)
                    IN IF c > Len(s) \/ s[c] # ":" THEN JFail
                       ELSE LET v == ParseValue(s, c + 1)
                            IN IF ~v.ok THEN JFail
                               ELSE LET k == SkipWs(s, v.pos)
                                        ms == Append(acc, <<key.val, v.val>>)
                                    IN IF k > Len(s) THEN JFail
                                       ELSE IF s[k] = ","
                                            THEN ParseMembers(s, k + 1, ms)
                                       ELSE IF s[k] = "}"
                                            THEN JOk([t |-> "obj",
                                                      members |-> ms], k + 1)
                                       ELSE JFail

ParseValue(s, i) ==
    LET j == SkipWs(s, i)
    IN IF j > Len(s) THEN JFail
       ELSE IF s[j] = "["
            THEN LET k == SkipWs(s, j + 1)
                 IN IF k <= Len(s) /\ s[k] = "]"
                    THEN JOk([t |-> "arr", items |-> <<>>], k + 1)
                    ELSE ParseElements(s, j + 1, <<>>)
       ELSE IF s[j] = "{"
            THEN LET k == SkipWs(s, j + 1)
                 IN IF k <= Len(s) /\ s[k] = "}"
                    THEN JOk([t |-> "obj", members |-> <<>>], k + 1)
                    ELSE ParseMembers(s, j + 1, <<>>)
       ELSE IF s[j] = "\"" THEN ParseString(s, j)
       ELSE IF s[j] = "-" \/ IsDigit(s[j]) THEN ParseNumber(s, j)
       ELSE JFail

\* JSON.parse(str); JSON.parse(undefined) is a SyntaxError as well
JSONParse(str) ==
    LET Whole(v) ==
            IF v.ok /\ SkipWs(str, v.pos) = Len(str) + 1 THEN v ELSE JFail
    IN Whole(ParseValue(str, 1))

\* String(v) of a parsed value, as Number(v) and join() see it
RECURSIVE JsToString(_)
JsToString(v) ==
    IF v.t = "num" THEN NumStr(v.n)
    ELSE IF v.t = "str" THEN v.s
    ELSE IF v.t = "arr"
         THEN Join([i \in 1..Len(v.items) |-> JsToString(v.items[i])], <<",">>)
    ELSE <<"[object Object]">>

\* Number(v) of a parsed value
NumberOfJson(v) ==
    IF v.t = "num" THEN v.n
    ELSE IF v.t = "obj" THEN NaN
    ELSE NumberOfStr(JsToString(v))

-----------------------------------------------------------------------------
(* Findings (ValidationError) and reports.                                 *)

NoDetails == <<>>

Finding(type, message, rows, cols, severity, details) ==
    [type |-> type, message |-> message, affectedRows |-> rows,
     affectedColumns |-> cols, severity |-> severity, details |-> details]

\* `${row.field}` of a numeric field
NumText(row, k) == IF k \in DOMAIN row THEN NumStr(row[k]) ELSE Undefined

\* ids.join(', '): join writes undefined as the empty string
JoinIds(ids) ==
    Join([i \in 1..Len(ids) |-> IF ids[i] = Undefined THEN <<>> ELSE ids[i]],
         CommaSpace)

\* the indices 1..n that lie in S, ascending: the rows a forEach pushes for
Indices(n, S) == Filter([i \in 1..n |-> i], S)

\* rows.map(r => r[k])
Column(rows, k) == [i \in 1..Len(rows) |-> Get(rows[i], k)]

-----------------------------------------------------------------------------
(* ValidationEngine (src/lib/aiService.ts).                                *)

requiredClientColumns ==
    <<"ClientID", "ClientName", "PriorityLevel", "RequestedTaskIDs",
      "GroupTag", "AttributesJSON">>
requiredWorkerColumns ==
    <<"WorkerID", "WorkerName", "Skills", "AvailableSlots", "MaxLoadPerPhase",
      "WorkerGroup", "QualificationLevel">>
requiredTaskColumns ==
    <<"TaskID", "TaskName", "Category", "Duration", "RequiredSkills",
      "PreferredPhases", "MaxConcurrent">>

MissingColumnsOf(rows, required, label) ==
    IF Len(rows) > 0
    THEN LET missing == Filter(required,
                 {i \in 1..Len(required) : required[i] \notin DOMAIN rows[1]})
         IN IF Len(missing) > 0
            THEN <<Finding("missing_columns",
                           <<label>> \o Join([i \in 1..Len(missing) |->
                                                 <<missing[i]>>], CommaSpace),
                           <<>>, missing, "error", NoDetails)>>
            ELSE <<>>
    ELSE <<>>

validateMissingRequiredColumns(c, w, t) ==
    MissingColumnsOf(c, requiredClientColumns,
                     "Missing required client columns: ")
    \o MissingColumnsOf(w, requiredWorkerColumns,
                        "Missing required worker columns: ")
    \o MissingColumnsOf(t, requiredTaskColumns,
                        "Missing required task columns: ")

\* variant: only a value equal to its predecessor counts as seen again
findDuplicatesAdjacent(array) ==
    Dedup(Filter(array, {i \in 2..Len(array) : array[i] = array[i - 1]}))

\* the values seen a second time, in the order of their second occurrence
RECURSIVE findDuplicates(_)
findDuplicates(array) ==
    IF array = <<>> THEN <<>>
    ELSE LET n == Len(array)
             seen == SubSeq(array, 1, n - 1)
             duplicates == findDuplicates(seen)
         IN IF Includes(seen, array[n]) /\ ~Includes(duplicates, array[n])
            THEN Append(duplicates, array[n])
            ELSE duplicates

DuplicateIDsOf(rows, idColumn, label, details) ==
    LET ids == Column(rows, idColumn)
        duplicateIDs == findDuplicates(ids)
    IN IF Len(duplicateIDs) > 0
       THEN LET hit == Indices(Len(rows),
                           {i \in 1..Len(rows) : Includes(duplicateIDs, ids[i])})
            IN <<Finding("duplicate_ids",
                         <<label>> \o JoinIds(duplicateIDs),
                         [k \in 1..Len(hit) |-> hit[k] - 1],
                         <<idColumn>>, "error",
                         IF details
                         THEN <<"Found ">> \o NumStr(Len(duplicateIDs))
                              \o <<" duplicate Client IDs. Each client must have a unique identifier.">>
                         ELSE NoDetails)>>
       ELSE <<>>

validateDuplicateIDs(c, w, t) ==
    DuplicateIDsOf(c, "ClientID", "Duplicate Client IDs found: ", TRUE)
    \o DuplicateIDsOf(w, "WorkerID", "Duplicate Worker IDs found: ", FALSE)
    \o DuplicateIDsOf(t, "TaskID", "Duplicate Task IDs found: ", FALSE)

isValidArrayString(str) ==
    LET NumberArray(parsed) ==
            /\ parsed.ok
            /\ parsed.val.t = "arr"
            /\ \A i \in 1..Len(parsed.val.items) :
                  parsed.val.items[i].t = "num"
    IN NumberArray(JSONParse(str))

\* /^\d+-\d+$/ on str.trim()
isValidRangeString(str) ==
    LET s == Trim(str)
    IN \E k \in 1..Len(s) :
          /\ s[k] = "-"
          /\ AllDigits(SubSeq(s, 1, k - 1))
          /\ AllDigits(SubSeq(s, k + 1, Len(s)))

\* undefined.trim() in isValidRangeString: a task without PreferredPhases
MalformedListsThrows(t) ==
    \E i \in 1..Len(t) : "PreferredPhases" \notin DOMAIN t[i]

validateMalformedLists(w, t) ==
    LET badW == Indices(Len(w), {i \in 1..Len(w) :
                    ~isValidArrayString(Get(w[i], "AvailableSlots"))})
        badT == Indices(Len(t), {i \in 1..Len(t) :
                    /\ ~isValidArrayString(Get(t[i], "PreferredPhases"))
                    /\ ~isValidRangeString(Get(t[i], "PreferredPhases"))})
    IN [k \in 1..Len(badW) |->
          Finding("malformed_list",
                  <<"Invalid AvailableSlots format for worker ">>
                  \o Get(w[badW[k]], "WorkerID")
                  \o <<". Expected array format like \"[1,2,3]\"">>,
                  <<badW[k] - 1>>, <<"AvailableSlots">>, "error", NoDetails)]
       \o
       [k \in 1..Len(badT) |->
          Finding("malformed_list",
                  <<"Invalid PreferredPhases format for task ">>
                  \o Get(t[badT[k]], "TaskID")
                  \o <<". Expected array \"[1,2,3]\" or range \"1-3\" format">>,
                  <<badT[k] - 1>>, <<"PreferredPhases">>, "error", NoDetails)]

PriorityMin == 1
PriorityMax == 5
DurationMin == 1

\* variant: the limits themselves count as out of range
validateOutOfRangeExclusive(c, t) ==
    LET badC == Indices(Len(c), {i \in 1..Len(c) :
                    /\ "PriorityLevel" \in DOMAIN c[i]
                    /\ (c[i].PriorityLevel <= PriorityMin
                        \/ c[i].PriorityLevel >= PriorityMax)})
        badT == Indices(Len(t), {i \in 1..Len(t) :
                    /\ "Duration" \in DOMAIN t[i]
                    /\ t[i].Duration <= DurationMin})
    IN [k \in 1..Len(badC) |->
          Finding("out_of_range",
                  <<"PriorityLevel must be between 1-5 for client ">>
                  \o Get(c[badC[k]], "ClientID"),
                  <<badC[k] - 1>>, <<"PriorityLevel">>, "error", NoDetails)]
       \o
       [k \in 1..Len(badT) |->
          Finding("out_of_range",
                  <<"Duration must be >= 1 for task ">>
                  \o Get(t[badT[k]], "TaskID"),
                  <<badT[k] - 1>>, <<"Duration">>, "error", NoDetails)]

validateOutOfRange(c, t) ==
    LET badC == Indices(Len(c), {i \in 1..Len(c) :
                    /\ "PriorityLevel" \in DOMAIN c[i]
                    /\ (c[i].PriorityLevel < PriorityMin
                        \/ c[i].PriorityLevel > PriorityMax)})
        badT == Indices(Len(t), {i \in 1..Len(t) :
                    /\ "Duration" \in DOMAIN t[i]
                    /\ t[i].Duration < DurationMin})
    IN [k \in 1..Len(badC) |->
          Finding("out_of_range",
                  <<"PriorityLevel must be between 1-5 for client ">>
                  \o Get(c[badC[k]], "ClientID"),
                  <<badC[k] - 1>>, <<"PriorityLevel">>, "error", NoDetails)]
       \o
       [k \in 1..Len(badT) |->
          Finding("out_of_range",
                  <<"Duration must be >= 1 for task ">>
                  \o Get(t[badT[k]], "TaskID"),
                  <<badT[k] - 1>>, <<"Duration">>, "error", NoDetails)]

validateBrokenJSON(c) ==
    LET bad == Indices(Len(c), {i \in 1..Len(c) :
                   ~JSONParse(Get(c[i], "AttributesJSON")).ok})
    IN [k \in 1..Len(bad) |->
          Finding("broken_json",
                  <<"Invalid JSON in AttributesJSON for client ">>
                  \o Get(c[bad[k]], "ClientID"),
                  <<bad[k] - 1>>, <<"AttributesJSON">>, "error", NoDetails)]

\* requestedTasks.filter(taskId => taskId && !taskIDs.has(taskId))
\* variant: the last task id is not looked at
UnknownTasksButLast(requestedTasks, taskIDs) ==
    Filter(requestedTasks, {i \in 1..Len(requestedTasks) :
              /\ requestedTasks[i] # <<>>
              /\ ~Includes(SubSeq(taskIDs, 1, Len(taskIDs) - 1),
                           requestedTasks[i])})

UnknownTasks(requestedTasks, taskIDs) ==
    Filter(requestedTasks, {i \in 1..Len(requestedTasks) :
              /\ requestedTasks[i] # <<>>
              /\ ~Includes(taskIDs, requestedTasks[i])})

\* undefined.split(','): a client without RequestedTaskIDs
UnknownReferencesThrows(c) ==
    \E i \in 1..Len(c) : "RequestedTaskIDs" \notin DOMAIN c[i]

validateUnknownReferences(c, t) ==
    LET taskIDs == Column(t, "TaskID")
        unknown(i) == UnknownTasks(MapTrim(Split(c[i].RequestedTaskIDs, {","})),
                                   taskIDs)
        bad == Indices(Len(c), {i \in 1..Len(c) : Len(unknown(i)) > 0})
    IN [k \in 1..Len(bad) |->
          Finding("unknown_reference",
                  <<"Client ">> \o Get(c[bad[k]], "ClientID")
                  \o <<" references unknown tasks: ">>
                  \o Join(unknown(bad[k]), CommaSpace),
                  <<bad[k] - 1>>, <<"RequestedTaskIDs">>, "error", NoDetails)]

validateOverloadedWorkers(w) ==
    LET slots(i) == JSONParse(Get(w[i], "AvailableSlots"))
        bad == Indices(Len(w), {i \in 1..Len(w) :
                   /\ slots(i).ok
                   /\ slots(i).val.t = "arr"
                   /\ "MaxLoadPerPhase" \in DOMAIN w[i]
                   /\ Len(slots(i).val.items) < w[i].MaxLoadPerPhase})
    IN [k \in 1..Len(bad) |->
          Finding("overloaded_worker",
                  <<"Worker ">> \o Get(w[bad[k]], "WorkerID")
                  \o <<" has MaxLoadPerPhase (">>
                  \o NumText(w[bad[k]], "MaxLoadPerPhase")
                  \o <<") greater than available slots (">>
                  \o NumStr(Len(slots(bad[k]).val.items)) \o <<")">>,
                  <<bad[k] - 1>>, <<"MaxLoadPerPhase", "AvailableSlots">>,
                  "warning", NoDetails)]

\* str.split(',').map(s => s.trim())
SkillList(str) == MapTrim(Split(str, {","}))

\* undefined.split(','): a worker without Skills or a task without
\* RequiredSkills
SkillCoverageThrows(w, t) ==
    \/ \E i \in 1..Len(w) : "Skills" \notin DOMAIN w[i]
    \/ \E i \in 1..Len(t) : "RequiredSkills" \notin DOMAIN t[i]

validateSkillCoverage(w, t) ==
    LET workerSkills == Flatten([i \in 1..Len(w) |-> SkillList(w[i].Skills)])
        uncovered(i) ==
            LET req == SkillList(t[i].RequiredSkills)
            IN Filter(req, {k \in 1..Len(req) :
                         req[k] # <<>> /\ ~Includes(workerSkills, req[k])})
        bad == Indices(Len(t), {i \in 1..Len(t) : Len(uncovered(i)) > 0})
    IN [k \in 1..Len(bad) |->
          Finding("skill_coverage",
                  <<"Task ">> \o Get(t[bad[k]], "TaskID")
                  \o <<" requires skills not available in any worker: ">>
                  \o Join(uncovered(bad[k]), CommaSpace),
                  <<bad[k] - 1>>, <<"RequiredSkills">>, "warning", NoDetails)]

validateMaxConcurrencyFeasibility(w, t) ==
    LET qualified(i) ==
            LET req == SkillList(t[i].RequiredSkills)
            IN {j \in 1..Len(w) :
                   \A k \in 1..Len(req) :
                       Includes(SkillList(w[j].Skills), req[k])}
        bad == Indices(Len(t), {i \in 1..Len(t) :
                   /\ "MaxConcurrent" \in DOMAIN t[i]
                   /\ t[i].MaxConcurrent > Cardinality(qualified(i))})
    IN [k \in 1..Len(bad) |->
          Finding("max_concurrency_feasibility",
                  <<"Task ">> \o Get(t[bad[k]], "TaskID")
                  \o <<" MaxConcurrent (">>
                  \o NumText(t[bad[k]], "MaxConcurrent")
                  \o <<") exceeds qualified workers (">>
                  \o NumStr(Cardinality(qualified(bad[k]))) \o <<")">>,
                  <<bad[k] - 1>>, <<"MaxConcurrent">>, "warning", NoDetails)]

\* arr.sort((a, b) => a - b)
RECURSIVE SortAsc(_)
SortAsc(arr) ==
    IF arr = <<>> THEN <<>>
    ELSE LET n == Len(arr)
             init == SortAsc(SubSeq(arr, 1, n - 1))
             k == Cardinality({i \in 1..Len(init) : init[i] <= arr[n]})
         IN SubSeq(init, 1, k) \o <<arr[n]>> \o SubSeq(init, k + 1, Len(init))

\* groups.sort((a, b) => b.count - a.count); Array.prototype.sort is stable
RECURSIVE SortByCountDesc(_)
SortByCountDesc(groups) ==
    IF groups = <<>> THEN <<>>
    ELSE LET n == Len(groups)
             init == SortByCountDesc(SubSeq(groups, 1, n - 1))
             k == Cardinality({i \in 1..Len(init) :
                                  init[i].count >= groups[n].count})
         IN SubSeq(init, 1, k) \o <<groups[n]>>
            \o SubSeq(init, k + 1, Len(init))

MaxExamples == 3

\* the forEach that fills groupMap; the groups are in insertion order
RECURSIVE GroupMapOf(_)
GroupMapOf(validationErrors) ==
    IF validationErrors = <<>> THEN <<>>
    ELSE LET n == Len(validationErrors)
             error == validationErrors[n]
             groupMap == GroupMapOf(SubSeq(validationErrors, 1, n - 1))
         IN IF \E g \in 1..Len(groupMap) : groupMap[g].type = error.type
            THEN [g \in 1..Len(groupMap) |->
                    IF groupMap[g].type = error.type
                    THEN [groupMap[g] EXCEPT
                            !.count = @ + 1,
                            !.affectedRows = @ \o error.affectedRows,
                            !.affectedColumns = @ \o error.affectedColumns,
                            !.examples =
                                IF Len(@) < MaxExamples
                                   /\ error.details # NoDetails
                                THEN Append(@, error.details) ELSE @]
                    ELSE groupMap[g]]
            ELSE Append(groupMap,
                        [type |-> error.type,
                         message |-> error.message,
                         severity |-> error.severity,
                         count |-> 1,
                         affectedRows |-> error.affectedRows,
                         affectedColumns |-> error.affectedColumns,
                         examples |-> IF error.details # NoDetails
                                      THEN <<error.details>> ELSE <<>>])

\* variant: a group's count stops at the number of examples kept
groupValidationErrorsCapped(validationErrors) ==
    LET groupMap == GroupMapOf(validationErrors)
        min(a, b) == IF a < b THEN a ELSE b
    IN SortByCountDesc(
         [g \in 1..Len(groupMap) |->
            [groupMap[g] EXCEPT
               !.count = min(@, MaxExamples),
               !.affectedRows = SortAsc(Dedup(@)),
               !.affectedColumns = Dedup(@)]])

\* variant: the final sort is left out, the groups stay in map order
groupValidationErrorsUnsorted(validationErrors) ==
    LET groupMap == GroupMapOf(validationErrors)
    IN [g \in 1..Len(groupMap) |->
          [groupMap[g] EXCEPT
             !.affectedRows = SortAsc(Dedup(@)),
             !.affectedColumns = Dedup(@)]]

\* variant: every detail string of the kind is kept as an example
groupValidationErrorsAllExamples(validationErrors) ==
    LET groupMap == GroupMapOf(validationErrors)
        Detailed(type) ==
            Filter(validationErrors,
                   {k \in 1..Len(validationErrors) :
                       /\ validationErrors[k].type = type
                       /\ validationErrors[k].details # NoDetails})
        DetailsOfKind(fs) == [k \in 1..Len(fs) |-> fs[k].details]
    IN SortByCountDesc(
         [g \in 1..Len(groupMap) |->
            [groupMap[g] EXCEPT
               !.affectedRows = SortAsc(Dedup(@)),
               !.affectedColumns = Dedup(@),
               !.examples = DetailsOfKind(Detailed(groupMap[g].type))]])

groupValidationErrors(validationErrors) ==
    LET groupMap == GroupMapOf(validationErrors)
    IN SortByCountDesc(
         [g \in 1..Len(groupMap) |->
            [groupMap[g] EXCEPT
               !.affectedRows = SortAsc(Dedup(@)),
               !.affectedColumns = Dedup(@)]])

\* variant: a warning makes the report invalid too
IsCleanOf(errors, warnings) == Len(errors) = 0 /\ Len(warnings) = 0

\* the report's isValid
IsValidOf(errors, warnings) == Len(errors) = 0

Report(errors, warnings) ==
    [threw |-> FALSE,
     isValid |-> IsValidOf(errors, warnings),
     errors |-> errors,
     warnings |-> warnings,
     groupedErrors |-> groupValidationErrors(errors),
     groupedWarnings |-> groupValidationErrors(warnings)]

\* the outcome of a call that ended in a TypeError
Thrown == [threw |-> TRUE]

MaxConcurrencyFeasibilityThrows(w, t) ==
    \/ \E i \in 1..Len(t) : "RequiredSkills" \notin DOMAIN t[i]
    \/ Len(t) > 0 /\ \E j \in 1..Len(w) : "Skills" \notin DOMAIN w[j]

ValidateAllThrows(c, w, t) ==
    \/ MalformedListsThrows(t)
    \/ UnknownReferencesThrows(c)
    \/ SkillCoverageThrows(w, t)
    \/ MaxConcurrencyFeasibilityThrows(w, t)

\* ValidationEngine.validateAll
validateAll(c, w, t) ==
    IF ValidateAllThrows(c, w, t) THEN Thrown
    ELSE Report(validateMissingRequiredColumns(c, w, t)
                \o validateDuplicateIDs(c, w, t)
                \o validateMalformedLists(w, t)
                \o validateOutOfRange(c, t)
                \o validateBrokenJSON(c)
                \o validateUnknownReferences(c, t),
                validateOverloadedWorkers(w)
                \o validateSkillCoverage(w, t)
                \o validateMaxConcurrencyFeasibility(w, t))

-----------------------------------------------------------------------------
(* CrossFileValidationEngine (src/lib/crossFileValidation.ts).             *)

\* the integers start..end of the range branch; a NaN bound ends the loop
\* before its first round
RangeSeq(start, end) ==
    IF start = NaN \/ end = NaN \/ start > end THEN <<>>
    ELSE [i \in 1..(end - start + 1) |-> start + i - 1]

\* s.split(',').map(s => Number(s.trim())).filter(n => !isNaN(n))
CommaNumbers(str) ==
    LET Numbers(parts) ==
            LET Kept(ns) == Filter(ns, {i \in 1..Len(ns) : ns[i] # NaN})
            IN Kept([i \in 1..Len(parts) |-> NumberOfStr(parts[i])])
    IN Numbers(Split(str, {","}))

\* variant: the parsed value is converted as a scalar, as if it were not an
\* array
BracketNumbersScalar(str) ==
    LET Numbers(parsed) ==
            IF ~parsed.ok THEN <<>>
            ELSE <<NumberOfJson(parsed.val)>>
    IN Numbers(JSONParse(str))

\* the array branch of parsePhases and parseSlots; a SyntaxError is caught
\* and gives []
BracketNumbers(str) ==
    LET Numbers(parsed) ==
            IF ~parsed.ok THEN <<>>
            ELSE IF parsed.val.t = "arr"
                 THEN [i \in 1..Len(parsed.val.items) |->
                          NumberOfJson(parsed.val.items[i])]
            ELSE <<NumberOfJson(parsed.val)>>
    IN Numbers(JSONParse(str))

parsePhases(phasesStr) ==
    IF ~Truthy(phasesStr) THEN <<>>
    ELSE IF Includes(phasesStr, "[") THEN BracketNumbers(phasesStr)
    ELSE IF Includes(phasesStr, "-")
         THEN LET parts == Split(phasesStr, {"-"})
              IN RangeSeq(NumberOfStr(parts[1]), NumberOfStr(parts[2]))
    ELSE CommaNumbers(phasesStr)

parseSlots(slotsStr) ==
    IF ~Truthy(slotsStr) THEN <<>>
    ELSE IF Includes(slotsStr, "[") THEN BracketNumbers(slotsStr)
    ELSE CommaNumbers(slotsStr)

\* str.toLowerCase().split(/[,;]/).map(s => s.trim())
SkillTokens(str) == MapTrim(Split(ToLowerCase(str), {",", ";"}))

\* `x.Skills ? tokens : []`
SkillTokensOrNone(str) == IF Truthy(str) THEN SkillTokens(str) ELSE <<>>

\* workerSkills.some(ws => ws.includes(skill) || skill.includes(ws))
FuzzyHas(workerSkills, skill) ==
    \E i \in 1..Len(workerSkills) :
        StrIncludes(workerSkills[i], skill) \/ StrIncludes(skill, workerSkills[i])

\* variant: one non-empty dataset is enough
hasAnyDataSource(c, w, t) ==
    Cardinality({i \in 1..3 : Len(<<c, w, t>>[i]) > 0}) >= 1

hasMultipleDataSources(c, w, t) ==
    Cardinality({i \in 1..3 : Len(<<c, w, t>>[i]) > 0}) >= 2

\* the requested ids of one client as parsed values
RequestedTasksOf(str) ==
    LET AsItems(pieces) ==
            [i \in 1..Len(pieces) |-> [t |-> "str", s |-> pieces[i]]]
        Requested(parsed, asList) ==
            IF Head(str) = "[" /\ parsed.ok THEN parsed.val.items ELSE asList
    IN Requested(JSONParse(str), AsItems(MapTrim(Split(str, {","}))))

\* variant: the set of task ids is not consulted
IsNonEmptyTask(v, taskIds) ==
    IF v.t = "str" THEN v.s # <<>>
    ELSE IF v.t = "num" THEN v.n # 0
    ELSE TRUE

\* taskId && !taskIds.has(taskId)
IsUnknownTask(v, taskIds) ==
    IF v.t = "str" THEN v.s # <<>> /\ ~Includes(taskIds, v.s)
    ELSE IF v.t = "num" THEN v.n # 0
    ELSE TRUE

XvalidateUnknownReferences(c, t) ==
    IF Len(c) = 0 \/ Len(t) = 0 THEN <<>>
    ELSE
    LET UnknownOf(taskIds, req) ==
            LET Strings(u) == [k \in 1..Len(u) |-> JsToString(u[k])]
            IN Strings(Filter(req, {k \in 1..Len(req) :
                                       IsUnknownTask(req[k], taskIds)}))
        \* unknown[i]: the unknown tasks of client row i
        Errors(taskIds, unknown) ==
            LET Listed(bad) ==
                  [k \in 1..Len(bad) |->
                     Finding("unknown_reference",
                             <<"Client ">> \o Get(c[bad[k]], "ClientID")
                             \o <<" (">> \o Get(c[bad[k]], "ClientName")
                             \o <<") references unknown task(s): ">>
                             \o Join(unknown[bad[k]], CommaSpace),
                             <<bad[k] - 1>>, <<"RequestedTaskIDs">>, "error",
                             <<"Unknown tasks: ">>
                             \o Join(unknown[bad[k]], CommaSpace)
                             \o <<". Available tasks: ">> \o JoinIds(taskIds))]
            IN Listed(Indices(Len(c), {i \in 1..Len(c) : Len(unknown[i]) > 0}))
        OfAll(taskIds) ==
            Errors(taskIds,
                   [i \in 1..Len(c) |->
                      IF Truthy(Get(c[i], "RequestedTaskIDs"))
                      THEN UnknownOf(taskIds,
                                     RequestedTasksOf(c[i].RequestedTaskIDs))
                      ELSE <<>>])
    IN OfAll(Dedup(Column(t, "TaskID")))

\* variant: only the first worker's slots are collected
AvailablePhasesFirst(w) ==
    Dedup(parseSlots(Get(w[1], "AvailableSlots")))

\* the union of the workers' parsed slots, in insertion order
AvailablePhases(w) ==
    Dedup(Flatten([i \in 1..Len(w) |-> parseSlots(Get(w[i], "AvailableSlots"))]))

NumList(ns, sep) == Join([i \in 1..Len(ns) |-> NumStr(ns[i])], sep)

validateInvalidPhaseReferences(w, t) ==
    IF Len(t) = 0 \/ Len(w) = 0 THEN <<>>
    ELSE
    LET InvalidOf(availablePhases, pp) ==
            Filter(pp, {k \in 1..Len(pp) : ~Includes(availablePhases, pp[k])})
        \* invalid[i]: the invalid phases of task row i
        Errors(availablePhases, invalid) ==
            LET Listed(bad) ==
                  [k \in 1..Len(bad) |->
                     Finding("invalid_phase_reference",
                             <<"Task ">> \o Get(t[bad[k]], "TaskID")
                             \o <<" prefers phases ">>
                             \o NumList(invalid[bad[k]], <<",">>)
                             \o <<", but no worker is available in those phases">>,
                             <<bad[k] - 1>>, <<"PreferredPhases">>, "error",
                             <<"Invalid phases: ">>
                             \o NumList(invalid[bad[k]], CommaSpace)
                             \o <<". Available phases: ">>
                             \o NumList(availablePhases, CommaSpace))]
            IN Listed(Indices(Len(t), {i \in 1..Len(t) : Len(invalid[i]) > 0}))
        OfAll(availablePhases) ==
            Errors(availablePhases,
                   [i \in 1..Len(t) |->
                      InvalidOf(availablePhases,
                                parsePhases(Get(t[i], "PreferredPhases")))])
    IN OfAll(AvailablePhases(w))

validateSkillCoverageGaps(w, t) ==
    IF Len(t) = 0 \/ Len(w) = 0 THEN <<>>
    ELSE
    LET UncoveredOf(workerSkills, req) ==
            Filter(req, {k \in 1..Len(req) :
                      req[k] # <<>> /\ ~Includes(workerSkills, req[k])})
        \* uncovered[i]: the uncovered skills of task row i
        Warnings(workerSkills, uncovered) ==
            LET Listed(bad) ==
                  [k \in 1..Len(bad) |->
                     Finding("skill_coverage_gap",
                             <<"Task ">> \o Get(t[bad[k]], "TaskID")
                             \o <<" (">> \o Get(t[bad[k]], "TaskName")
                             \o <<") requires skill(s) not covered by any worker: ">>
                             \o Join(uncovered[bad[k]], CommaSpace),
                             <<bad[k] - 1>>, <<"RequiredSkills">>, "warning",
                             <<"Uncovered skills: ">>
                             \o Join(uncovered[bad[k]], CommaSpace)
                             \o <<". Available skills: ">>
                             \o Join(workerSkills, CommaSpace))]
            IN Listed(Indices(Len(t),
                              {i \in 1..Len(t) : Len(uncovered[i]) > 0}))
        OfAll(workerSkills) ==
            Warnings(workerSkills,
                     [i \in 1..Len(t) |->
                        IF Truthy(Get(t[i], "RequiredSkills"))
                        THEN UncoveredOf(workerSkills,
                                         SkillTokens(t[i].RequiredSkills))
                        ELSE <<>>])
    IN OfAll(Dedup(Flatten([i \in 1..Len(w) |->
                               SkillTokensOrNone(Get(w[i], "Skills"))])))

\* `!row.N` of a numeric field: missing or 0
NumTruthy(row, k) == k \in DOMAIN row /\ row[k] # 0 /\ row[k] # NaN

\* the workers qualified for task row i, as ascending worker indices
QualifiedWorkers(w, task) ==
    LET Qualified(requiredSkills, preferredPhases) ==
            Indices(Len(w), {j \in 1..Len(w) :
                /\ \A k \in 1..Len(requiredSkills) :
                      FuzzyHas(SkillTokensOrNone(Get(w[j], "Skills")),
                               requiredSkills[k])
                /\ \E k \in 1..Len(preferredPhases) :
                      Includes(parseSlots(Get(w[j], "AvailableSlots")),
                               preferredPhases[k])})
    IN Qualified(SkillTokens(task.RequiredSkills),
                 parsePhases(task.PreferredPhases))

validateMaxConcurrencyViolations(w, t) ==
    IF Len(t) = 0 \/ Len(w) = 0 THEN <<>>
    ELSE
    LET checked(i) == /\ NumTruthy(t[i], "MaxConcurrent")
                      /\ Truthy(Get(t[i], "RequiredSkills"))
                      /\ Truthy(Get(t[i], "PreferredPhases"))
        \* q[i]: the qualified workers of task row i, phases[i]: its phases
        Warnings(q, phases) ==
            LET Listed(bad) ==
                  [k \in 1..Len(bad) |->
                     Finding("max_concurrency_violation",
                             <<"Task ">> \o Get(t[bad[k]], "TaskID")
                             \o <<" requests MaxConcurrent = ">>
                             \o NumStr(t[bad[k]].MaxConcurrent)
                             \o <<", but only ">> \o NumStr(Len(q[bad[k]]))
                             \o <<" qualified workers available in phases ">>
                             \o NumList(phases[bad[k]], <<",">>),
                             <<bad[k] - 1>>,
                             <<"MaxConcurrent", "RequiredSkills",
                               "PreferredPhases">>,
                             "warning",
                             <<"Qualified workers: ">>
                             \o JoinIds([j \in 1..Len(q[bad[k]]) |->
                                           Get(w[q[bad[k]][j]], "WorkerID")]))]
            IN Listed(Indices(Len(t), {i \in 1..Len(t) :
                         checked(i) /\ Len(q[i]) < t[i].MaxConcurrent}))
    IN Warnings([i \in 1..Len(t) |->
                    IF checked(i) THEN QualifiedWorkers(w, t[i]) ELSE <<>>],
                [i \in 1..Len(t) |->
                    parsePhases(Get(t[i], "PreferredPhases"))])

\* the tasks a worker with these skills is eligible for in one phase
EligibleTasks(t, workerSkills, phase) ==
    Indices(Len(t), {i \in 1..Len(t) :
        LET requiredSkills == SkillTokensOrNone(Get(t[i], "RequiredSkills"))
        IN /\ \A k \in 1..Len(requiredSkills) :
                 FuzzyHas(workerSkills, requiredSkills[k])
           /\ Includes(parsePhases(Get(t[i], "PreferredPhases")), phase)})

\* the findings of one worker row: one round of the loop per listed slot
OverloadedOf(w, t, j) ==
    IF ~NumTruthy(w[j], "MaxLoadPerPhase")
       \/ ~Truthy(Get(w[j], "AvailableSlots"))
    THEN <<>>
    ELSE
    LET \* eligible[p]: the tasks eligible in the p-th listed slot
        Warnings(availableSlots, eligible) ==
            LET Listed(over) ==
                  [k \in 1..Len(over) |->
                     Finding("overloaded_worker",
                             <<"Worker ">> \o Get(w[j], "WorkerID")
                             \o <<" has MaxLoadPerPhase: ">>
                             \o NumStr(w[j].MaxLoadPerPhase)
                             \o <<", but is eligible for ">>
                             \o NumStr(Len(eligible[over[k]]))
                             \o <<" tasks in phase ">>
                             \o NumStr(availableSlots[over[k]]),
                             <<j - 1>>, <<"MaxLoadPerPhase", "AvailableSlots">>,
                             "warning",
                             <<"Eligible tasks in phase ">>
                             \o NumStr(availableSlots[over[k]]) \o <<": ">>
                             \o JoinIds([i \in 1..Len(eligible[over[k]]) |->
                                   Get(t[eligible[over[k]][i]], "TaskID")]))]
            IN Listed(Indices(Len(availableSlots),
                              {p \in 1..Len(availableSlots) :
                                  Len(eligible[p]) > w[j].MaxLoadPerPhase}))
        OfSlots(workerSkills, availableSlots) ==
            Warnings(availableSlots,
                     [p \in 1..Len(availableSlots) |->
                        EligibleTasks(t, workerSkills, availableSlots[p])])
    IN OfSlots(SkillTokensOrNone(Get(w[j], "Skills")),
               parseSlots(w[j].AvailableSlots))

XvalidateOverloadedWorkers(w, t) ==
    IF Len(w) = 0 \/ Len(t) = 0 THEN <<>>
    ELSE Flatten([j \in 1..Len(w) |-> OverloadedOf(w, t, j)])

\* `task.Duration || 1`
DurationOrOne(task) == IF NumTruthy(task, "Duration") THEN task.Duration ELSE 1

Count(arr, x) == Cardinality({i \in 1..Len(arr) : arr[i] = x})

RECURSIVE Sum(_)
Sum(ns) == IF ns = <<>> THEN 0 ELSE Head(ns) + Sum(Tail(ns))

validatePhaseSlotSaturation(w, t) ==
    IF Len(t) = 0 \/ Len(w) = 0 THEN <<>>
    ELSE
    LET \* taskPhases[i]: the parsed phases of task row i
        Warnings(slotList, taskPhases) ==
            LET capacity(phase) == Count(slotList, phase)
                required(phase) ==
                    Sum([i \in 1..Len(t) |->
                            Count(taskPhases[i], phase) * DurationOrOne(t[i])])
                Listed(over) ==
                  [k \in 1..Len(over) |->
                     Finding("phase_slot_saturation",
                             <<"Phase ">> \o NumStr(over[k]) \o <<" has ">>
                             \o NumStr(required(over[k]))
                             \o <<" task-duration units required, but only ">>
                             \o NumStr(capacity(over[k]))
                             \o <<" available worker slots">>,
                             <<>>,
                             <<"PreferredPhases", "Duration", "AvailableSlots">>,
                             "warning",
                             <<"Phase ">> \o NumStr(over[k])
                             \o <<": Required=">> \o NumStr(required(over[k]))
                             \o <<", Available=">> \o NumStr(capacity(over[k]))
                             \o <<", Deficit=">>
                             \o NumStr(required(over[k]) - capacity(over[k])))]
                Over(phases) ==
                    Listed(Filter(phases, {k \in 1..Len(phases) :
                              required(phases[k]) > capacity(phases[k])}))
            IN Over(Dedup(Flatten(taskPhases)))
    IN Warnings(Flatten([j \in 1..Len(w) |->
                            parseSlots(Get(w[j], "AvailableSlots"))]),
                [i \in 1..Len(t) |->
                    parsePhases(Get(t[i], "PreferredPhases"))])

\* the co-run rules the graph is built from: type coRun and a taskIds array
CoRunRules(r) == Filter(r, {i \in 1..Len(r) : r[i].type = "coRun"})

GraphRules(r) ==
    Filter(CoRunRules(r),
           {i \in 1..Len(CoRunRules(r)) : "taskIds" \in DOMAIN CoRunRules(r)[i]})

\* graph.keys(), in insertion order
GraphKeys(r) ==
    Dedup(Flatten([i \in 1..Len(GraphRules(r)) |-> GraphRules(r)[i].taskIds]))

\* graph.get(node): the other task ids of every rule that lists node, in
\* insertion order
Neighbors(r, node) ==
    LET gr == GraphRules(r)
        others(i) == IF Includes(gr[i].taskIds, node)
                     THEN Filter(gr[i].taskIds,
                                 {k \in 1..Len(gr[i].taskIds) :
                                     gr[i].taskIds[k] # node})
                     ELSE <<>>
    IN Dedup(Flatten([i \in 1..Len(gr) |-> others(i)]))

RECURSIVE hasCycle(_, _, _)
RECURSIVE VisitNeighbors(_, _, _, _)

\* st carries visited and recursionStack through the recursion
hasCycle(r, node, st) ==
    IF node \in st.recursionStack THEN [st EXCEPT !.found = TRUE]
    ELSE IF node \in st.visited THEN [st EXCEPT !.found = FALSE]
    ELSE LET entered == [found |-> FALSE,
                         visited |-> st.visited \cup {node},
                         recursionStack |-> st.recursionStack \cup {node}]
             res == VisitNeighbors(r, Neighbors(r, node), 1, entered)
         IN IF res.found THEN res
            ELSE [res EXCEPT !.recursionStack = @ \ {node}]

VisitNeighbors(r, neighbors, k, st) ==
    IF k > Len(neighbors) THEN [st EXCEPT !.found = FALSE]
    ELSE LET res == hasCycle(r, neighbors[k], st)
         IN IF res.found THEN res
            ELSE VisitNeighbors(r, neighbors, k + 1, res)

\* variant: the loop over the keys goes on after a cycle was reported
RECURSIVE EveryCycleNode(_, _, _, _)
EveryCycleNode(r, keys, k, st) ==
    IF k > Len(keys) THEN <<>>
    ELSE IF keys[k] \in st.visited THEN EveryCycleNode(r, keys, k + 1, st)
    ELSE LET res == hasCycle(r, keys[k], st)
         IN IF res.found THEN <<keys[k]>> \o EveryCycleNode(r, keys, k + 1, res)
            ELSE EveryCycleNode(r, keys, k + 1, res)

\* `for (const node of graph.keys())`: the first node whose search reports
\* a cycle, as a one-element list, or the empty list
RECURSIVE FirstCycleNode(_, _, _, _)
FirstCycleNode(r, keys, k, st) ==
    IF k > Len(keys) THEN <<>>
    ELSE IF keys[k] \in st.visited THEN FirstCycleNode(r, keys, k + 1, st)
    ELSE LET res == hasCycle(r, keys[k], st)
         IN IF res.found THEN <<keys[k]>>
            ELSE FirstCycleNode(r, keys, k + 1, res)

validateCircularCoRunDependencies(r) ==
    IF Len(CoRunRules(r)) = 0 THEN <<>>
    ELSE LET cyc == FirstCycleNode(r, GraphKeys(r), 1,
                        [found |-> FALSE, visited |-> {}, recursionStack |-> {}])
         IN [k \in 1..Len(cyc) |->
               Finding("circular_corun_dependency",
                       <<"Circular co-run dependency detected involving task ">>
                       \o cyc[k],
                       <<>>, <<>>, "error",
                       <<"Circular dependency in co-run rules involving task ">>
                       \o cyc[k])]

\* variant: a rule list with several slot restriction rules is reported
\* once, for its first rule
validateSlotRestrictionRulesOnce(r) ==
    LET sr == Filter(r, {i \in 1..Len(r) : r[i].type = "slotRestriction"})
    IN [k \in 1..(IF Len(sr) = 0 THEN 0 ELSE 1) |->
          Finding("slot_restriction_violation",
                  <<"Slot restriction rule \"">> \o Get(sr[k], "name")
                  \o <<"\" validation not yet implemented">>,
                  <<>>, <<>>, "warning",
                  <<"Rule: ">> \o Get(sr[k], "description"))]

validateSlotRestrictionRules(r) ==
    LET sr == Filter(r, {i \in 1..Len(r) : r[i].type = "slotRestriction"})
    IN [k \in 1..Len(sr) |->
          Finding("slot_restriction_violation",
                  <<"Slot restriction rule \"">> \o Get(sr[k], "name")
                  \o <<"\" validation not yet implemented">>,
                  <<>>, <<>>, "warning",
                  <<"Rule: ">> \o Get(sr[k], "description"))]

\* CrossFileValidationEngine.validateAll
XvalidateAll(c, w, t, r) ==
    IF hasMultipleDataSources(c, w, t)
    THEN [threw |-> FALSE,
          errors |-> XvalidateUnknownReferences(c, t)
                     \o validateInvalidPhaseReferences(w, t),
          warnings |-> validateSkillCoverageGaps(w, t)
                       \o validateMaxConcurrencyViolations(w, t)
                       \o XvalidateOverloadedWorkers(w, t)
                       \o validatePhaseSlotSaturation(w, t),
          businessRuleViolations |->
                       validateCircularCoRunDependencies(r)
                       \o validateSlotRestrictionRules(r)]
    ELSE [threw |-> FALSE, errors |-> <<>>, warnings |-> <<>>,
          businessRuleViolations |-> <<>>]

-----------------------------------------------------------------------------
(* Inputs.  Rows follow the interfaces Client, Worker and Task of the      *)
(* types module; a rule follows BusinessRule.                              *)

sC1 == <<"C", "1">>
sC2 == <<"C", "2">>
sW1 == <<"W", "1">>
sW2 == <<"W", "2">>
sT1 == <<"T", "1">>
sT2 == <<"T", "2">>
sT3 == <<"T", "3">>
sT4 == <<"T", "4">>
sT9 == <<"T", "9">>
sEmptyObject == <<"{", "}">>
sEmptyArray == <<"[", "]">>
sArray1 == <<"[", "1", "]">>
sArray12 == <<"[", "1", ",", "2", "]">>

ClientRow(id, priority, requested, attributes) ==
    [ClientID |-> id, ClientName |-> <<"A", "c", "m", "e">>,
     PriorityLevel |-> priority, RequestedTaskIDs |-> requested,
     GroupTag |-> <<"V", "I", "P">>, AttributesJSON |-> attributes]

WorkerRow(id, skills, slots, maxLoad) ==
    [WorkerID |-> id, WorkerName |-> <<"A", "n", "n">>, Skills |-> skills,
     AvailableSlots |-> slots, MaxLoadPerPhase |-> maxLoad,
     WorkerGroup |-> <<"g">>, QualificationLevel |-> 1]

TaskRow(id, duration, skills, phases, maxConcurrent) ==
    [TaskID |-> id, TaskName |-> <<"j", "o", "b">>, Category |-> <<"c">>,
     Duration |-> duration, RequiredSkills |-> skills,
     PreferredPhases |-> phases, MaxConcurrent |-> maxConcurrent]

CoRunRule(id, taskIds) ==
    [id |-> id, type |-> "coRun", name |-> <<"c", "o">>, priority |-> 1,
     taskIds |-> taskIds]

\* the rule CoRunRuleForm.handleSubmit builds: the ids are under `tasks`
CoRunFormRule(id, taskIds) ==
    [id |-> id, type |-> "coRun", name |-> <<"c", "o">>, priority |-> 1,
     tasks |-> taskIds]

SlotRestrictionRule(id) ==
    [id |-> id, type |-> "slotRestriction", name |-> <<"s", "r">>,
     priority |-> 1, clientGroup |-> <<"V", "I", "P">>, maxSlots |-> 2]

\* all sequences over S of length at most n
SeqsUpTo(S, n) == UNION {[1..k -> S] : k \in 0..n}

DupClients == {ClientRow(id, 3, <<>>, sEmptyObject) : id \in {sC1, sC2}}
DupWorkers == {WorkerRow(id, <<>>, sArray1, 1) : id \in {sW1, sW2}}
DupTasks == {TaskRow(id, 1, <<>>, sArray1, 0) : id \in {sT1, sT2}}

RefRequests ==
    { sT9,
      <<"T", "1", ",", " ", "T", "9">>,
      <<"[", "\"", "T", "9", "\"", "]">> }
RefClients == {ClientRow(sC1, 3, req, sEmptyObject) : req \in RefRequests}
RefWorkers == {WorkerRow(sW1, <<"a">>, sArray1, 1)}
RefTasks == {TaskRow(sT1, 1, <<"a">>, sArray1, 1),
             TaskRow(sT2, 1, <<>>, sArray12, 0)}
\* the tasks a task set is extended by
RefNewTasks ==
    { TaskRow(sT9, 1, <<"a">>, sArray1, 1),
      TaskRow(sT9, 0, <<"b">>, <<"2", "-", "1">>, 2),
      TaskRow(sT1, 1, <<"a">>, sArray1, 1) }

RulePool ==
    { CoRunRule(<<"r", "1">>, <<sT1, sT2>>),
      CoRunRule(<<"r", "2">>, <<sT2, sT3>>),
      CoRunRule(<<"r", "3">>, <<sT3, sT1>>),
      CoRunRule(<<"r", "4">>, <<sT3, sT4>>),
      CoRunRule(<<"r", "5">>, <<sT1>>),
      CoRunFormRule(<<"r", "6">>, <<sT1, sT2>>),
      SlotRestrictionRule(<<"r", "7">>) }
RuleClients == SeqsUpTo({ClientRow(sC1, 3, sT9, sEmptyObject)}, 1)
RuleWorkers == SeqsUpTo({WorkerRow(sW1, <<"a">>, sArray1, 1)}, 1)
RuleTasks == SeqsUpTo({TaskRow(sT1, 1, <<"a">>, sArray1, 1)}, 1)

BadClients ==
    { ClientRow(sC1, 3, sT1, sEmptyObject),
      ClientRow(sC1, 6, <<>>, <<"{", "a">>),
      [ClientID |-> sC2, ClientName |-> <<>>],
      [ClientID |-> sC2, ClientName |-> <<"A", "c", "m", "e">>,
       PriorityLevel |-> 2, RequestedTaskIDs |-> sT1,
       AttributesJSON |-> sEmptyObject],
      ClientRow(<<>>, 0, <<",">>, <<>>) }
BadWorkers ==
    { WorkerRow(sW1, <<"a">>, sArray12, 1),
      WorkerRow(sW1, <<"A", ";", "b">>, <<"1", ",", "2">>, 3),
      [WorkerID |-> sW2, AvailableSlots |-> <<"[", "a", "]">>] }
BadTasks ==
    { TaskRow(sT1, 1, <<"a">>, sArray1, 1),
      TaskRow(sT1, 0, <<"b">>, <<"[", "a", "]">>, 2),
      TaskRow(sT2, 2, <<>>, <<"2", "-", "1">>, 1),
      [TaskID |-> sT2, Duration |-> 1, RequiredSkills |-> <<"a">>],
      [TaskID |-> sT2, PreferredPhases |-> sArray1] }

\* priorities and durations at and around the limits
RangeClients ==
    {ClientRow(sC1, priority, <<>>, sEmptyObject) : priority \in {0, 1, 5, 6}}
RangeTasks ==
    {TaskRow(sT1, duration, <<>>, sArray1, 0) : duration \in {0, 1, 2}}

\* workers and tasks for the load checks: a worker with no spare load, a
\* worker listing a slot twice, a task without skills, skills that differ
\* in case, a task of no duration
LoadWorkers ==
    { WorkerRow(sW1, <<"a">>, sArray12, 1),
      WorkerRow(sW2, <<"A", ",", "b">>, sArray1, 0),
      WorkerRow(<<"W", "3">>, <<"a">>, <<"[", "1", ",", "1", "]">>, 3) }
LoadTasks ==
    { TaskRow(sT1, 1, <<>>, sArray1, 2),
      TaskRow(sT2, 2, <<"A">>, sArray12, 2),
      TaskRow(sT3, 0, <<"c">>, <<"[", "2", "]">>, 1) }

\* slots and phases in the array, range and comma notations, and none
PhaseWorkers ==
    { WorkerRow(sW1, <<"a">>, sArray12, 1),
      WorkerRow(sW2, <<"a">>, sArray1, 1),
      WorkerRow(sW2, <<"a">>, <<"3">>, 1) }
PhaseTasks ==
    { TaskRow(sT1, 1, <<"a">>, sArray1, 1),
      TaskRow(sT2, 1, <<"a">>, <<"1", "-", "3">>, 1),
      TaskRow(sT3, 1, <<"a">>, <<"2", ",", "4">>, 1),
      TaskRow(sT4, 1, <<"a">>, <<>>, 1) }

\* integers of one and of several digits
ListNumbers == {1, 2, 3, 10, 21}

\* the separators JSON allows between the items of an array
ListSeparators == {<<",">>, <<",", " ">>}

\* no list is being written
NoList == [items |-> <<>>, sep |-> <<",">>]

\* the enumerations of the non-empty sets of at most MaxListLen numbers
ListInputs ==
    { [items |-> items, sep |-> sep] :
        items \in {ns \in SeqsUpTo(ListNumbers, MaxListLen) :
                      /\ Len(ns) >= 1
                      /\ \A i, j \in 1..Len(ns) : i # j => ns[i] # ns[j]},
        sep \in ListSeparators }

GroupFindings ==
    { Finding("duplicate_ids", <<"dup">>, <<0, 2>>, <<"ClientID">>, "error",
              <<"d", "1">>),
      Finding("duplicate_ids", <<"dup">>, <<2, 1>>, <<"TaskID">>, "error",
              NoDetails),
      Finding("out_of_range", <<"range">>, <<1>>, <<"PriorityLevel">>,
              "error", <<"d", "2">>),
      Finding("out_of_range", <<"range">>, <<0>>, <<"Duration">>, "error",
              <<"d", "3">>),
      Finding("malformed_list", <<"list">>, <<3>>, <<"AvailableSlots">>,
              "error", NoDetails) }

-----------------------------------------------------------------------------
(* Initial states.                                                         *)

FileTypes == {"clients", "workers", "tasks"}

NoFile == [kind |-> "none"]
NoError == <<>>
NoResult == [threw |-> FALSE, none |-> TRUE]

NoData == [loaded |-> FALSE, rows |-> <<>>]

initialFileUploadState ==
    [file |-> NoFile, data |-> NoData, isProcessing |-> FALSE,
     error |-> NoError, validationResult |-> NoResult]

\* the store as created, no handler running, no engine called
InitRest ==
    /\ uploadState = [ft \in FileTypes |-> initialFileUploadState]
    /\ mappedHeaders = [ft \in FileTypes |-> FALSE]
    /\ pc = [ft \in FileTypes |-> [at |-> "idle"]]
    /\ nActions = 0
    /\ reports = <<>>
    /\ xreports = <<>>
    /\ groupCalls = <<>>
    /\ listCalls = <<>>

\* one dataset is drawn up to the full length, the other two are short
InitDup ==
    /\ \E long \in FileTypes :
          /\ clients \in SeqsUpTo(DupClients,
                                  IF long = "clients" THEN MaxDupRows ELSE 1)
          /\ workers \in SeqsUpTo(DupWorkers,
                                  IF long = "workers" THEN MaxDupRows ELSE 1)
          /\ tasks \in SeqsUpTo(DupTasks,
                                IF long = "tasks" THEN MaxDupRows ELSE 1)
    /\ rules = <<>>
    /\ groupInput = <<>>
    /\ listInput = NoList
    /\ InitRest

\* clients or tasks are drawn up to the full length, the other is short
InitRefs ==
    /\ \E long \in {"clients", "tasks"} :
          /\ clients \in SeqsUpTo(RefClients,
                                  IF long = "clients" THEN MaxRefRows ELSE 1)
          /\ tasks \in SeqsUpTo(RefTasks,
                                IF long = "tasks" THEN MaxRefRows ELSE 1)
    /\ workers \in SeqsUpTo(RefWorkers, 1)
    /\ rules = <<>>
    /\ groupInput = <<>>
    /\ listInput = NoList
    /\ InitRest

InitRules ==
    /\ clients \in RuleClients
    /\ workers \in RuleWorkers
    /\ tasks \in RuleTasks
    /\ rules \in SeqsUpTo(RulePool, MaxRules)
    /\ groupInput = <<>>
    /\ listInput = NoList
    /\ InitRest

InitBad ==
    /\ clients \in SeqsUpTo(BadClients, MaxBadRows)
    /\ workers \in SeqsUpTo(BadWorkers, MaxBadRows)
    /\ tasks \in SeqsUpTo(BadTasks, MaxBadRows)
    /\ rules \in SeqsUpTo({SlotRestrictionRule(<<"r", "7">>)}, 1)
    /\ groupInput = <<>>
    /\ listInput = NoList
    /\ InitRest

InitRange ==
    /\ clients \in SeqsUpTo(RangeClients, MaxRangeRows)
    /\ workers = <<>>
    /\ tasks \in SeqsUpTo(RangeTasks, MaxRangeRows)
    /\ rules = <<>>
    /\ groupInput = <<>>
    /\ listInput = NoList
    /\ InitRest

InitLoad ==
    /\ clients = <<>>
    /\ workers \in SeqsUpTo(LoadWorkers, MaxLoadRows)
    /\ tasks \in SeqsUpTo(LoadTasks, MaxLoadRows)
    /\ rules = <<>>
    /\ groupInput = <<>>
    /\ listInput = NoList
    /\ InitRest

InitPhase ==
    /\ clients = <<>>
    /\ workers \in SeqsUpTo(PhaseWorkers, MaxPhaseRows)
    /\ tasks \in SeqsUpTo(PhaseTasks, MaxPhaseRows)
    /\ rules = <<>>
    /\ groupInput = <<>>
    /\ listInput = NoList
    /\ InitRest

InitList ==
    /\ clients = <<>>
    /\ workers = <<>>
    /\ tasks = <<>>
    /\ rules = <<>>
    /\ groupInput = <<>>
    /\ listInput \in ListInputs
    /\ InitRest

InitGroup ==
    /\ clients = <<>>
    /\ workers = <<>>
    /\ tasks = <<>>
    /\ rules = <<>>
    /\ groupInput \in SeqsUpTo(GroupFindings, MaxFindings)
    /\ listInput = NoList
    /\ InitRest

-----------------------------------------------------------------------------
(* Engine calls.                                                           *)

\* variant: the call sorts the field in place, leaving it in reverse order
FieldReversed(rows) == [i \in 1..Len(rows) |-> rows[Len(rows) + 1 - i]]

\* what a call of validateAll leaves in a field of the engine: the methods
\* only read this.clients, this.workers, this.tasks and this.businessRules
FieldAfterCall(rows) == rows

\* new ValidationEngine(clients, workers, tasks).validateAll()
CallValidateAll ==
    /\ Len(reports) < MaxCalls
    /\ reports' = Append(reports, validateAll(clients, workers, tasks))
    /\ clients' = FieldAfterCall(clients)
    /\ workers' = FieldAfterCall(workers)
    /\ tasks' = FieldAfterCall(tasks)
    /\ UNCHANGED <<rules, uploadState, mappedHeaders, pc, nActions, xreports,
                   groupInput, groupCalls, listInput, listCalls>>

\* new CrossFileValidationEngine(clients, workers, tasks, rules).validateAll()
CallXValidateAll ==
    /\ Len(xreports) < MaxCalls
    /\ xreports' = Append(xreports, XvalidateAll(clients, workers, tasks, rules))
    /\ clients' = FieldAfterCall(clients)
    /\ workers' = FieldAfterCall(workers)
    /\ tasks' = FieldAfterCall(tasks)
    /\ rules' = FieldAfterCall(rules)
    /\ UNCHANGED <<uploadState, mappedHeaders, pc, nActions, reports,
                   groupInput, groupCalls, listInput, listCalls>>

\* groupValidationErrors(validationErrors)
CallGroup ==
    /\ Len(groupCalls) < MaxCalls
    /\ groupCalls' = Append(groupCalls, groupValidationErrors(groupInput))
    /\ UNCHANGED <<clients, workers, tasks, rules, uploadState, mappedHeaders,
                   pc, nActions, reports, xreports, groupInput, listInput,
                   listCalls>>

\* the array notation of an integer list, "[1,2,3]"
WriteArray(items, sep) == <<"[">> \o NumList(items, sep) \o <<"]">>

\* the written list is parsed as phases and as slots by the cross-file
\* engine and tested by ValidationEngine.isValidArrayString
CallParse ==
    /\ Len(listCalls) < MaxCalls
    /\ LET Parsed(text) ==
               [text |-> text,
                phases |-> parsePhases(text),
                slots |-> parseSlots(text),
                accepted |-> isValidArrayString(text)]
       IN listCalls' =
              Append(listCalls,
                     Parsed(WriteArray(listInput.items, listInput.sep)))
    /\ UNCHANGED <<clients, workers, tasks, rules, uploadState, mappedHeaders,
                   pc, nActions, reports, xreports, groupInput, groupCalls,
                   listInput>>

\* the store's addTask
addTask(task) == tasks' = Append(tasks, task)

\* after both engines have reported, the task set is extended by one task
\* and validateAll is run again on engines built from the new datasets
ExtendTasks(task) ==
    /\ nActions < MaxExtensions
    /\ reports # <<>>
    /\ xreports # <<>>
    /\ nActions' = nActions + 1
    /\ addTask(task)
    /\ reports' = <<validateAll(clients, workers, tasks')>>
    /\ xreports' = <<XvalidateAll(clients, workers, tasks', rules)>>
    /\ UNCHANGED <<clients, workers, rules, uploadState, mappedHeaders, pc,
                   groupInput, groupCalls, listInput, listCalls>>

NextEngine == CallValidateAll \/ CallXValidateAll

NextRefs ==
    \/ CallValidateAll
    \/ CallXValidateAll
    \/ \E task \in RefNewTasks : ExtendTasks(task)

\* the business rules are read by the cross-file engine only
NextRules == CallXValidateAll

NextGroup == CallGroup

NextRange == CallValidateAll

NextList == CallParse

SpecDup == InitDup /\ [][NextEngine]_vars
SpecRefs == InitRefs /\ [][NextRefs]_vars
SpecRules == InitRules /\ [][NextRules]_vars
SpecBad == InitBad /\ [][NextEngine]_vars
SpecGroup == InitGroup /\ [][NextGroup]_vars
SpecRange == InitRange /\ [][NextRange]_vars
SpecLoad == InitLoad /\ [][NextEngine]_vars
SpecPhase == InitPhase /\ [][NextRules]_vars
SpecList == InitList /\ [][NextList]_vars

-----------------------------------------------------------------------------
(* The application: the store and the three upload zones.                  *)

\* FileProcessor.generateSampleData
sampleClients ==
    <<[ClientID |->
         <<"C","0","0","1">>,
       ClientName |->
         <<"A","c","m","e"," ","C","o","r","p">>,
       PriorityLevel |->
         5,
       RequestedTaskIDs |->
         <<"T","0","0","1",",","T","0","0","2">>,
       GroupTag |->
         <<"V","I","P">>,
       AttributesJSON |->
         <<"{","\"","i","n","d","u","s","t","r","y","\"",":","\"","t","e","c","h","\"",",","\"","s","i","z","e","\"",":","\"","l","a","r","g","e","\"","}">>],
      [ClientID |->
         <<"C","0","0","2">>,
       ClientName |->
         <<"B","e","t","a"," ","L","L","C">>,
       PriorityLevel |->
         3,
       RequestedTaskIDs |->
         <<"T","0","0","2",",","T","0","0","3">>,
       GroupTag |->
         <<"S","t","a","n","d","a","r","d">>,
       AttributesJSON |->
         <<"{","\"","i","n","d","u","s","t","r","y","\"",":","\"","f","i","n","a","n","c","e","\"",",","\"","s","i","z","e","\"",":","\"","m","e","d","i","u","m","\"","}">>],
      [ClientID |->
         <<"C","0","0","3">>,
       ClientName |->
         <<"G","a","m","m","a"," ","I","n","c">>,
       PriorityLevel |->
         2,
       RequestedTaskIDs |->
         <<"T","0","0","4">>,
       GroupTag |->
         <<"S","t","a","n","d","a","r","d">>,
       AttributesJSON |->
         <<"{","\"","i","n","d","u","s","t","r","y","\"",":","\"","r","e","t","a","i","l","\"",",","\"","s","i","z","e","\"",":","\"","s","m","a","l","l","\"","}">>]>>

sampleWorkers ==
    <<[WorkerID |->
         <<"W","0","0","1">>,
       WorkerName |->
         <<"A","l","i","c","e"," ","J","o","h","n","s","o","n">>,
       Skills |->
         <<"J","a","v","a","S","c","r","i","p","t",",","R","e","a","c","t",",","N","o","d","e",".","j","s">>,
       AvailableSlots |->
         <<"[","1",",","2",",","3","]">>,
       MaxLoadPerPhase |->
         2,
       WorkerGroup |->
         <<"F","r","o","n","t","e","n","d">>,
       QualificationLevel |->
         4],
      [WorkerID |->
         <<"W","0","0","2">>,
       WorkerName |->
         <<"B","o","b"," ","S","m","i","t","h">>,
       Skills |->
         <<"P","y","t","h","o","n",",","D","j","a","n","g","o",",","P","o","s","t","g","r","e","S","Q","L">>,
       AvailableSlots |->
         <<"[","2",",","3",",","4","]">>,
       MaxLoadPerPhase |->
         3,
       WorkerGroup |->
         <<"B","a","c","k","e","n","d">>,
       QualificationLevel |->
         5],
      [WorkerID |->
         <<"W","0","0","3">>,
       WorkerName |->
         <<"C","a","r","o","l"," ","D","a","v","i","s">>,
       Skills |->
         <<"J","a","v","a","S","c","r","i","p","t",",","P","y","t","h","o","n",",","S","Q","L">>,
       AvailableSlots |->
         <<"[","1",",","3",",","5","]">>,
       MaxLoadPerPhase |->
         2,
       WorkerGroup |->
         <<"F","u","l","l","s","t","a","c","k">>,
       QualificationLevel |->
         3]>>

sampleTasks ==
    <<[TaskID |->
         <<"T","0","0","1">>,
       TaskName |->
         <<"F","r","o","n","t","e","n","d"," ","D","e","v","e","l","o","p","m","e","n","t">>,
       Category |->
         <<"D","e","v","e","l","o","p","m","e","n","t">>,
       Duration |->
         3,
       RequiredSkills |->
         <<"J","a","v","a","S","c","r","i","p","t",",","R","e","a","c","t">>,
       PreferredPhases |->
         <<"[","1",",","2","]">>,
       MaxConcurrent |->
         2],
      [TaskID |->
         <<"T","0","0","2">>,
       TaskName |->
         <<"B","a","c","k","e","n","d"," ","A","P","I">>,
       Category |->
         <<"D","e","v","e","l","o","p","m","e","n","t">>,
       Duration |->
         4,
       RequiredSkills |->
         <<"P","y","t","h","o","n",",","D","j","a","n","g","o">>,
       PreferredPhases |->
         <<"[","2",",","3",",","4","]">>,
       MaxConcurrent |->
         1],
      [TaskID |->
         <<"T","0","0","3">>,
       TaskName |->
         <<"D","a","t","a","b","a","s","e"," ","D","e","s","i","g","n">>,
       Category |->
         <<"A","r","c","h","i","t","e","c","t","u","r","e">>,
       Duration |->
         2,
       RequiredSkills |->
         <<"S","Q","L",",","P","o","s","t","g","r","e","S","Q","L">>,
       PreferredPhases |->
         <<"[","1",",","2","]">>,
       MaxConcurrent |->
         1],
      [TaskID |->
         <<"T","0","0","4">>,
       TaskName |->
         <<"Q","u","a","l","i","t","y"," ","A","s","s","u","r","a","n","c","e">>,
       Category |->
         <<"T","e","s","t","i","n","g">>,
       Duration |->
         2,
       RequiredSkills |->
         <<"J","a","v","a","S","c","r","i","p","t",",","P","y","t","h","o","n">>,
       PreferredPhases |->
         <<"[","4",",","5","]">>,
       MaxConcurrent |->
         2]>>

generateSampleData(fileType) ==
    CASE fileType = "clients" -> sampleClients
      [] fileType = "workers" -> sampleWorkers
      [] fileType = "tasks" -> sampleTasks

\* String(row.X || fallback) of a cell read from a file
StringOr(row, k, fallback) ==
    IF Truthy(Get(row, k)) THEN row[k] ELSE fallback

\* FileProcessor.parseNumber of a cell read from a file
parseNumber(row, k, defaultValue) ==
    IF NumberOfStr(Get(row, k)) = NaN THEN defaultValue
    ELSE NumberOfStr(Get(row, k))

transformClient(row) ==
    [ClientID |-> StringOr(row, "ClientID", <<>>),
     ClientName |-> StringOr(row, "ClientName", <<>>),
     PriorityLevel |-> parseNumber(row, "PriorityLevel", 1),
     RequestedTaskIDs |-> StringOr(row, "RequestedTaskIDs", <<>>),
     GroupTag |-> StringOr(row, "GroupTag", <<>>),
     AttributesJSON |-> StringOr(row, "AttributesJSON", sEmptyObject)]

transformWorker(row) ==
    [WorkerID |-> StringOr(row, "WorkerID", <<>>),
     WorkerName |-> StringOr(row, "WorkerName", <<>>),
     Skills |-> StringOr(row, "Skills", <<>>),
     AvailableSlots |-> StringOr(row, "AvailableSlots", sEmptyArray),
     MaxLoadPerPhase |-> parseNumber(row, "MaxLoadPerPhase", 1),
     WorkerGroup |-> StringOr(row, "WorkerGroup", <<>>),
     QualificationLevel |-> parseNumber(row, "QualificationLevel", 1)]

transformTask(row) ==
    [TaskID |-> StringOr(row, "TaskID", <<>>),
     TaskName |-> StringOr(row, "TaskName", <<>>),
     Category |-> StringOr(row, "Category", <<>>),
     Duration |-> parseNumber(row, "Duration", 1),
     RequiredSkills |-> StringOr(row, "RequiredSkills", <<>>),
     PreferredPhases |-> StringOr(row, "PreferredPhases", sEmptyArray),
     MaxConcurrent |-> parseNumber(row, "MaxConcurrent", 1)]

transformData(data, fileType) ==
    [i \in 1..Len(data) |->
        CASE fileType = "clients" -> transformClient(data[i])
          [] fileType = "workers" -> transformWorker(data[i])
          [] fileType = "tasks" -> transformTask(data[i])]

\* a file the user can drop: a CSV file with its rows (cells are strings
\* under the normalised headers) and the parse errors Papa reports, or a
\* spreadsheet XLSX.read cannot read
CsvFile(name, rows, parseErrors) ==
    [kind |-> "csv", name |-> name, rows |-> rows,
     parseErrors |-> parseErrors]

UnreadableXlsx ==
    [kind |-> "xlsx", name |-> "broken.xlsx", rows |-> <<>>,
     parseErrors |-> <<>>]

FilesOf(fileType) ==
    CASE fileType = "clients" ->
           { CsvFile("clients.csv",
                     <<[ClientID |-> sC1, PriorityLevel |-> <<"3">>,
                        RequestedTaskIDs |-> sT1]>>, <<>>),
             CsvFile("quotes.csv", <<>>,
                     <<<<"Row 1: Quoted field unterminated">>>>),
             UnreadableXlsx }
      [] fileType = "workers" ->
           { CsvFile("workers.csv",
                     <<[WorkerID |-> sW1, Skills |-> <<"a">>,
                        AvailableSlots |-> sArray1,
                        MaxLoadPerPhase |-> <<"x">>]>>, <<>>),
             UnreadableXlsx }
      [] fileType = "tasks" ->
           { CsvFile("tasks.csv",
                     <<[TaskID |-> sT1, Duration |-> <<"2">>,
                        RequiredSkills |-> <<"b">>,
                        PreferredPhases |-> sArray1,
                        MaxConcurrent |-> <<"1">>]>>, <<>>),
             CsvFile("zero.csv",
                     <<[TaskID |-> sT2, Duration |-> <<>>]>>, <<>>) }

\* FileProcessor.processFile: the rows and the errors
processFile(file, fileType) ==
    IF file.kind = "csv"
    THEN [data |-> transformData(file.rows, fileType),
          errors |-> file.parseErrors]
    ELSE [data |-> <<>>,
          errors |-> <<<<"Failed to process Excel file: ">>>>]

\* state.<fileType>.data
DataOf(fileType) ==
    CASE fileType = "clients" -> clients
      [] fileType = "workers" -> workers
      [] fileType = "tasks" -> tasks

\* setClientsData, setWorkersData, setTasksData; also the data part of the
\* add, update and delete actions of the store
setData(fileType, data) ==
    /\ clients' = IF fileType = "clients" THEN data ELSE clients
    /\ workers' = IF fileType = "workers" THEN data ELSE workers
    /\ tasks' = IF fileType = "tasks" THEN data ELSE tasks

\* { ...state.uploadState, ...patch }
updateUploadState(fileType, patch) ==
    uploadState' = [uploadState EXCEPT ![fileType] =
        [k \in DOMAIN @ |-> IF k \in DOMAIN patch THEN patch[k] ELSE @[k]]]

IsResult(validationResult) == "none" \notin DOMAIN validationResult

\* the store's getValidationErrors: the stored results, concatenated
getValidationErrors ==
    LET stored == Filter(<<uploadState["clients"].validationResult,
                           uploadState["workers"].validationResult,
                           uploadState["tasks"].validationResult>>,
                         {i \in 1..3 :
                            IsResult(uploadState[<<"clients", "workers",
                                                   "tasks">>[i]]
                                        .validationResult)})
        errors == Flatten([i \in 1..Len(stored) |-> stored[i].errors])
        warnings == Flatten([i \in 1..Len(stored) |-> stored[i].warnings])
    IN [isValid |-> IsValidOf(errors, warnings),
        errors |-> errors,
        warnings |-> warnings,
        groupedErrors |->
            Flatten([i \in 1..Len(stored) |-> stored[i].groupedErrors]),
        groupedWarnings |->
            Flatten([i \in 1..Len(stored) |-> stored[i].groupedWarnings])]

Idle == [at |-> "idle"]

UserAction ==
    /\ nActions < MaxUserActions
    /\ nActions' = nActions + 1

EngineIdle ==
    UNCHANGED <<reports, xreports, groupInput, groupCalls, listInput,
                listCalls>>

\* onDrop up to its first await
onDrop(fileType, file) ==
    /\ UserAction
    /\ pc[fileType] = Idle
    /\ updateUploadState(fileType,
          [file |-> file, isProcessing |-> TRUE, error |-> NoError,
           validationResult |-> NoResult])
    /\ pc' = [pc EXCEPT ![fileType] = [at |-> "onDrop", file |-> file]]
    /\ UNCHANGED <<clients, workers, tasks, rules, mappedHeaders>>
    /\ EngineIdle

\* onDrop after the headers were read: the mapping is shown
onDropMapped(fileType) ==
    /\ pc[fileType].at = "onDrop"
    /\ pc[fileType].file.kind = "csv"
    /\ mappedHeaders' = [mappedHeaders EXCEPT ![fileType] = TRUE]
    /\ pc' = [pc EXCEPT ![fileType] = Idle]
    /\ UNCHANGED <<clients, workers, tasks, rules, uploadState, nActions>>
    /\ EngineIdle

\* onDrop's catch: reading the headers threw
onDropCatch(fileType) ==
    /\ pc[fileType].at = "onDrop"
    /\ pc[fileType].file.kind # "csv"
    /\ updateUploadState(fileType,
          [isProcessing |-> FALSE, error |-> <<"File is not a zip file">>])
    /\ pc' = [pc EXCEPT ![fileType] = Idle]
    /\ UNCHANGED <<clients, workers, tasks, rules, mappedHeaders, nActions>>
    /\ EngineIdle

\* the Cancel button of the mapping panel
onCancelMapping(fileType) ==
    /\ UserAction
    /\ mappedHeaders[fileType]
    /\ mappedHeaders' = [mappedHeaders EXCEPT ![fileType] = FALSE]
    /\ UNCHANGED <<clients, workers, tasks, rules, uploadState, pc>>
    /\ EngineIdle

\* onConfirmMapping up to its await
onConfirmMapping(fileType) ==
    /\ UserAction
    /\ pc[fileType] = Idle
    /\ mappedHeaders[fileType]
    /\ uploadState[fileType].file # NoFile
    /\ updateUploadState(fileType, [isProcessing |-> TRUE])
    /\ pc' = [pc EXCEPT ![fileType] =
                 [at |-> "onConfirmMapping",
                  file |-> uploadState[fileType].file]]
    /\ UNCHANGED <<clients, workers, tasks, rules, mappedHeaders>>
    /\ EngineIdle

\* variant: the rows are put in the store before the errors are looked at
onConfirmMappingResultEager(fileType) ==
    /\ pc[fileType].at = "onConfirmMapping"
    /\ LET result == processFile(pc[fileType].file, fileType)
           validationResult ==
               validateAll(
                   IF fileType = "clients" THEN result.data ELSE clients,
                   IF fileType = "workers" THEN result.data ELSE workers,
                   IF fileType = "tasks" THEN result.data ELSE tasks)
       IN /\ setData(fileType, result.data)
          /\ IF Len(result.errors) > 0
             THEN /\ updateUploadState(fileType,
                        [isProcessing |-> FALSE,
                         error |-> Join(result.errors, <<"; ">>)])
                  /\ UNCHANGED mappedHeaders
             ELSE IF validationResult.threw
                  THEN /\ updateUploadState(fileType,
                             [isProcessing |-> FALSE,
                              error |-> <<"Cannot read properties of undefined">>])
                       /\ UNCHANGED mappedHeaders
                  ELSE /\ updateUploadState(fileType,
                             [data |-> [loaded |-> TRUE, rows |-> result.data],
                              isProcessing |-> FALSE,
                              validationResult |-> validationResult])
                       /\ mappedHeaders' =
                             [mappedHeaders EXCEPT ![fileType] = FALSE]
    /\ pc' = [pc EXCEPT ![fileType] = Idle]
    /\ UNCHANGED <<rules, nActions>>
    /\ EngineIdle

\* onConfirmMapping after processFile returned
onConfirmMappingResult(fileType) ==
    /\ pc[fileType].at = "onConfirmMapping"
    /\ LET result == processFile(pc[fileType].file, fileType)
           validationResult ==
               validateAll(
                   IF fileType = "clients" THEN result.data ELSE clients,
                   IF fileType = "workers" THEN result.data ELSE workers,
                   IF fileType = "tasks" THEN result.data ELSE tasks)
       IN IF Len(result.errors) > 0
          THEN /\ updateUploadState(fileType,
                     [isProcessing |-> FALSE,
                      error |-> Join(result.errors, <<"; ">>)])
               /\ UNCHANGED <<clients, workers, tasks, mappedHeaders>>
          ELSE /\ setData(fileType, result.data)
               /\ IF validationResult.threw
                  THEN /\ updateUploadState(fileType,
                             [isProcessing |-> FALSE,
                              error |-> <<"Cannot read properties of undefined">>])
                       /\ UNCHANGED mappedHeaders
                  ELSE /\ updateUploadState(fileType,
                             [data |-> [loaded |-> TRUE, rows |-> result.data],
                              isProcessing |-> FALSE,
                              validationResult |-> validationResult])
                       /\ mappedHeaders' =
                             [mappedHeaders EXCEPT ![fileType] = FALSE]
    /\ pc' = [pc EXCEPT ![fileType] = Idle]
    /\ UNCHANGED <<rules, nActions>>
    /\ EngineIdle

\* the Load Sample Data link
loadSampleData(fileType) ==
    /\ UserAction
    /\ setData(fileType, generateSampleData(fileType))
    /\ updateUploadState(fileType,
          [file |-> NoFile,
           data |-> [loaded |-> TRUE, rows |-> generateSampleData(fileType)],
           isProcessing |-> FALSE,
           error |-> NoError,
           validationResult |->
               [threw |-> FALSE, isValid |-> TRUE, errors |-> <<>>,
                warnings |-> <<>>, groupedErrors |-> <<>>,
                groupedWarnings |-> <<>>]])
    /\ UNCHANGED <<rules, mappedHeaders, pc>>
    /\ EngineIdle

\* Date.now() as the grid reads it for the id of an added row
Stamps == {<<"7">>, <<"8">>}

\* the row the grid's Add Row button adds
NewRowOf(fileType, stamp) ==
    CASE fileType = "clients" ->
           [ClientID |-> <<"C">> \o stamp, ClientName |-> <<>>,
            PriorityLevel |-> 1, RequestedTaskIDs |-> <<>>,
            GroupTag |-> <<>>, AttributesJSON |-> <<>>]
      [] fileType = "workers" ->
           [WorkerID |-> <<"W">> \o stamp, WorkerName |-> <<>>,
            Skills |-> <<>>, AvailableSlots |-> <<>>, MaxLoadPerPhase |-> 1,
            WorkerGroup |-> <<>>, QualificationLevel |-> 1]
      [] fileType = "tasks" ->
           [TaskID |-> <<"T">> \o stamp, TaskName |-> <<>>, Category |-> <<>>,
            Duration |-> 1, RequiredSkills |-> <<>>, PreferredPhases |-> <<>>,
            MaxConcurrent |-> 1]

IdColumnOf(fileType) ==
    CASE fileType = "clients" -> "ClientID"
      [] fileType = "workers" -> "WorkerID"
      [] fileType = "tasks" -> "TaskID"

\* onAddRow: addClient, addWorker or addTask of the store
onAddRow(fileType, stamp) ==
    /\ UserAction
    /\ setData(fileType, Append(DataOf(fileType), NewRowOf(fileType, stamp)))
    /\ UNCHANGED <<rules, uploadState, mappedHeaders, pc>>
    /\ EngineIdle

\* onDeleteSelected with one row selected: deleteClients, deleteWorkers or
\* deleteTasks of the store with the id of that row
onDeleteSelected(fileType, index) ==
    /\ UserAction
    /\ index \in 1..Len(DataOf(fileType))
    /\ LET data == DataOf(fileType)
           selectedIds == <<data[index][IdColumnOf(fileType)]>>
       IN setData(fileType,
                  Filter(data, {i \in 1..Len(data) :
                      ~Includes(selectedIds, data[i][IdColumnOf(fileType)])}))
    /\ UNCHANGED <<rules, uploadState, mappedHeaders, pc>>
    /\ EngineIdle

\* the row after a cell edit in the grid
EditedRowOf(fileType, row) ==
    CASE fileType = "clients" -> [row EXCEPT !.PriorityLevel = 9]
      [] fileType = "workers" -> [row EXCEPT !.Skills = <<"b">>]
      [] fileType = "tasks" -> [row EXCEPT !.Duration = 0]

\* handleDataChange: updateClient, updateWorker or updateTask of the store
handleDataChange(fileType, index) ==
    /\ UserAction
    /\ index \in 1..Len(DataOf(fileType))
    /\ setData(fileType,
               [DataOf(fileType) EXCEPT
                   ![index] = EditedRowOf(fileType, @)])
    /\ UNCHANGED <<rules, uploadState, mappedHeaders, pc>>
    /\ EngineIdle

\* the slot restriction rule createRuleFromPattern makes of a description
PatternSlotRule(id) ==
    [id |-> id, type |-> "slotRestriction",
     name |-> <<"Slot Restriction Rule">>, priority |-> 6, maxSlots |-> 2,
     description |-> <<"Restricts client slot usage">>]

\* the rules the rule builder adds: the co-run form's rule and a rule made
\* of a description
FormRules ==
    { CoRunFormRule(<<"r", "u", "l", "e", "_", "7">>, <<sT1, sT2>>),
      PatternSlotRule(<<"r", "u", "l", "e", "_", "8">>) }

\* the store's addRule
addRule(rule) ==
    /\ UserAction
    /\ rules' = Append(rules, rule)
    /\ UNCHANGED <<clients, workers, tasks, uploadState, mappedHeaders, pc>>
    /\ EngineIdle

\* the store's removeRule
removeRule(id) ==
    /\ UserAction
    /\ \E i \in 1..Len(rules) : rules[i].id = id
    /\ rules' = Filter(rules, {i \in 1..Len(rules) : rules[i].id # id})
    /\ UNCHANGED <<clients, workers, tasks, uploadState, mappedHeaders, pc>>
    /\ EngineIdle

Init ==
    /\ clients = <<>>
    /\ workers = <<>>
    /\ tasks = <<>>
    /\ rules = <<>>
    /\ groupInput = <<>>
    /\ listInput = NoList
    /\ InitRest

Next ==
    \/ \E fileType \in FileTypes :
          \E file \in FilesOf(fileType) : onDrop(fileType, file)
    \/ \E fileType \in FileTypes : onDropMapped(fileType)
    \/ \E fileType \in FileTypes : onDropCatch(fileType)
    \/ \E fileType \in FileTypes : onCancelMapping(fileType)
    \/ \E fileType \in FileTypes : onConfirmMapping(fileType)
    \/ \E fileType \in FileTypes : onConfirmMappingResult(fileType)
    \/ \E fileType \in FileTypes : loadSampleData(fileType)
    \/ \E fileType \in FileTypes, stamp \in Stamps : onAddRow(fileType, stamp)
    \/ \E fileType \in FileTypes, index \in 1..MaxUserActions :
          onDeleteSelected(fileType, index)
    \/ \E fileType \in FileTypes, index \in 1..MaxUserActions :
          handleDataChange(fileType, index)
    \/ \E rule \in FormRules : addRule(rule)
    \/ \E rule \in FormRules : removeRule(rule.id)

Spec == Init /\ [][Next]_vars

-----------------------------------------------------------------------------
(* Properties.                                                             *)

\* the findings of an outcome, none when the call threw
FindingsOf(rep) ==
    IF rep.threw THEN <<>> ELSE rep.errors \o rep.warnings

XFindingsOf(xrep) ==
    xrep.errors \o xrep.warnings \o xrep.businessRuleViolations

OfType(findings, type) ==
    Filter(findings, {k \in 1..Len(findings) : findings[k].type = type})

\* the 0-based indices of the rows whose id occurs in two or more rows
DuplicatedRows(rows, idColumn) ==
    {i - 1 : i \in {i \in 1..Len(rows) :
        Cardinality({j \in 1..Len(rows) :
            Get(rows[j], idColumn) = Get(rows[i], idColumn)}) >= 2}}

DuplicateFindingOk(rep, rows, idColumn) ==
    LET fs == Filter(OfType(rep.errors, "duplicate_ids"),
                     {k \in 1..Len(OfType(rep.errors, "duplicate_ids")) :
                         OfType(rep.errors, "duplicate_ids")[k].affectedColumns
                             = <<idColumn>>})
        dup == DuplicatedRows(rows, idColumn)
    IN /\ Len(fs) = (IF dup = {} THEN 0 ELSE 1)
       /\ \A k \in 1..Len(fs) :
             /\ SeqToSet(fs[k].affectedRows) = dup
             /\ Len(fs[k].affectedRows) = Cardinality(dup)

\* C2: for each dataset validateDuplicateIDs emits a duplicate_ids finding
\* iff some identifier occurs in two or more rows, and the finding's
\* affectedRows are exactly the rows whose identifier is duplicated
C2_DuplicateIds ==
    \A n \in 1..Len(reports) :
        ~reports[n].threw =>
            /\ DuplicateFindingOk(reports[n], clients, "ClientID")
            /\ DuplicateFindingOk(reports[n], workers, "WorkerID")
            /\ DuplicateFindingOk(reports[n], tasks, "TaskID")

C2_Witness ==
    /\ Len(reports) >= 1
    /\ Len(clients) = 3
    /\ DuplicatedRows(clients, "ClientID") = {0, 2}
    /\ \E k \in 1..Len(reports[1].errors) :
          /\ reports[1].errors[k].type = "duplicate_ids"
          /\ reports[1].errors[k].affectedRows = <<0, 2>>

\* the validation results the store holds
StoredResults ==
    {uploadState[fileType].validationResult : fileType \in
        {ft \in FileTypes : IsResult(uploadState[ft].validationResult)}}

\* C1: every report of ValidationEngine.validateAll the store holds has
\* isValid true exactly when its errors are empty, whatever its warnings
\* are, and so has the merged report of getValidationErrors in every state
\* of the store
C1_IsValidIffNoErrors ==
    /\ \A r \in StoredResults : r.isValid <=> r.errors = <<>>
    /\ getValidationErrors.isValid <=> getValidationErrors.errors = <<>>

\* a stored report with warnings and no errors is valid, and so is the
\* merged report
C1_Witness ==
    /\ \E r \in StoredResults :
          /\ r.warnings # <<>>
          /\ r.errors = <<>>
          /\ r.isValid
    /\ getValidationErrors.warnings # <<>>
    /\ getValidationErrors.isValid

\* the cross-file validator is active: two or more datasets hold rows
NonEmptyDatasets ==
    (IF clients # <<>> THEN 1 ELSE 0) + (IF workers # <<>> THEN 1 ELSE 0)
    + (IF tasks # <<>> THEN 1 ELSE 0)

\* the task sets of the co-run rules, one per rule
CoRunTaskSets ==
    [i \in 1..Len(rules) |->
        IF rules[i].type = "coRun" /\ "taskIds" \in DOMAIN rules[i]
        THEN SeqToSet(rules[i].taskIds) ELSE {}]

\* the rule set consists of co-run rules with exactly the given task sets
RulesAre(taskSets) ==
    /\ Len(rules) = Cardinality(taskSets)
    /\ \A i \in 1..Len(rules) : rules[i].type = "coRun"
    /\ SeqToSet(CoRunTaskSets) = taskSets

CircularFindings(xrep) ==
    OfType(XFindingsOf(xrep), "circular_corun_dependency")

\* C3: with exactly the co-run rules {T1,T2} and {T3,T4} and two or more
\* non-empty datasets, CrossFileValidationEngine.validateAll reports no
\* circular_corun_dependency
C3_DisjointPairsNoCycle ==
    \A n \in 1..Len(xreports) :
        (RulesAre({{sT1, sT2}, {sT3, sT4}}) /\ NonEmptyDatasets >= 2)
            => CircularFindings(xreports[n]) = <<>>

\* C4: with the co-run rules {T1,T2}, {T2,T3} and {T3,T1} and two or more
\* non-empty datasets the report holds exactly one
\* circular_corun_dependency finding, and for every rule set it holds at
\* most one
C4_OneCycleFinding ==
    \A n \in 1..Len(xreports) :
        /\ Len(CircularFindings(xreports[n])) <= 1
        /\ (RulesAre({{sT1, sT2}, {sT2, sT3}, {sT3, sT1}})
              /\ NonEmptyDatasets >= 2)
              => Len(CircularFindings(xreports[n])) = 1

C4_Witness ==
    /\ Len(xreports) >= 1
    /\ RulesAre({{sT1, sT2}, {sT2, sT3}, {sT3, sT1}})
    /\ NonEmptyDatasets >= 2
    /\ Len(CircularFindings(xreports[1])) = 1

\* C5: with fewer than two non-empty datasets
\* CrossFileValidationEngine.validateAll returns empty errors, warnings and
\* businessRuleViolations whatever the rules are; with two or more, each
\* list is the concatenation of the findings of its checks, the rule checks
\* included
C5_Activation ==
    \A n \in 1..Len(xreports) :
        /\ NonEmptyDatasets < 2 =>
              /\ xreports[n].errors = <<>>
              /\ xreports[n].warnings = <<>>
              /\ xreports[n].businessRuleViolations = <<>>
        /\ NonEmptyDatasets >= 2 =>
              /\ xreports[n].errors =
                    XvalidateUnknownReferences(clients, tasks)
                    \o validateInvalidPhaseReferences(workers, tasks)
              /\ xreports[n].warnings =
                    validateSkillCoverageGaps(workers, tasks)
                    \o validateMaxConcurrencyViolations(workers, tasks)
                    \o XvalidateOverloadedWorkers(workers, tasks)
                    \o validatePhaseSlotSaturation(workers, tasks)
              /\ xreports[n].businessRuleViolations =
                    validateCircularCoRunDependencies(rules)
                    \o validateSlotRestrictionRules(rules)

\* one dataset only, rules that would yield findings, and an empty report
C5_Witness ==
    /\ Len(xreports) >= 1
    /\ NonEmptyDatasets = 1
    /\ validateCircularCoRunDependencies(rules) # <<>>
    /\ validateSlotRestrictionRules(rules) # <<>>
    /\ XFindingsOf(xreports[1]) = <<>>

\* RequestedTaskIDs written as a JSON array
IsArrayForm(str) ==
    str # <<>> /\ Head(str) = "[" /\ JSONParse(str).ok

\* the non-empty ids a client requests, read as a JSON array or else as a
\* comma-separated list
RequestedIds(client) ==
    LET str == client.RequestedTaskIDs
        items == JSONParse(str).val.items
        pieces == Split(str, {","})
    IN IF IsArrayForm(str)
       THEN {JsToString(items[k]) : k \in 1..Len(items)} \ {<<>>}
       ELSE {Trim(pieces[k]) : k \in 1..Len(pieces)} \ {<<>>}

TaskIdSet(t) == {t[j].TaskID : j \in 1..Len(t)}

AbsentIds(client, t) == RequestedIds(client) \ TaskIdSet(t)

\* the unknown_reference findings for client row i (1-based)
UnknownFor(findings, i) ==
    Filter(findings, {k \in 1..Len(findings) :
        /\ findings[k].type = "unknown_reference"
        /\ findings[k].affectedRows = <<i - 1>>})

\* the ids among the candidates that the finding's message names
NamedIds(f, candidates) ==
    {id \in candidates : StrIncludes(f.message, id)}

UnknownReferencesMatch(xrep) ==
    /\ \A i \in 1..Len(clients) :
          LET fs == UnknownFor(xrep.errors, i)
              absent == AbsentIds(clients[i], tasks)
          IN /\ Len(fs) = (IF absent = {} THEN 0 ELSE 1)
             /\ \A k \in 1..Len(fs) :
                   NamedIds(fs[k], RequestedIds(clients[i]) \cup TaskIdSet(tasks))
                       = absent
    /\ \A k \in 1..Len(OfType(XFindingsOf(xrep), "unknown_reference")) :
          \E i \in 1..Len(clients) :
              OfType(XFindingsOf(xrep), "unknown_reference")[k].affectedRows
                  = <<i - 1>>

\* C6 as stated: whenever two or more datasets are non-empty, client row i
\* has an unknown_reference error with affectedRows = [i] iff one of its
\* non-empty requested ids is absent from the TaskID values, and the finding
\* names exactly the absent ids
C6_UnknownReferencesWhenActive ==
    \A n \in 1..Len(xreports) :
        NonEmptyDatasets >= 2 => UnknownReferencesMatch(xreports[n])

\* C6 amended: the equivalence holds whenever clients and tasks are both
\* non-empty; with an empty task set no unknown_reference is reported, also
\* when clients and workers make the validator active
C6_UnknownReferencesWithTasks ==
    \A n \in 1..Len(xreports) :
        /\ (clients # <<>> /\ tasks # <<>>)
              => UnknownReferencesMatch(xreports[n])
        /\ tasks = <<>>
              => OfType(XFindingsOf(xreports[n]), "unknown_reference") = <<>>

\* a client asks for T1 and T9, T1 is a task and T9 is not
C6_Witness ==
    /\ Len(xreports) >= 1
    /\ \E i \in 1..Len(clients) :
          /\ RequestedIds(clients[i]) = {sT1, sT9}
          /\ AbsentIds(clients[i], tasks) = {sT9}
          /\ Len(UnknownFor(xreports[1].errors, i)) = 1
          /\ NamedIds(UnknownFor(xreports[1].errors, i)[1], {sT1, sT9})
                = {sT9}

\* the step extends the task set by one task
TaskAdded ==
    /\ Len(tasks') = Len(tasks) + 1
    /\ SubSeq(tasks', 1, Len(tasks)) = tasks

\* the finding is about the row of the added task
OfAddedTask(f, row) ==
    /\ f.type \in {"malformed_list", "out_of_range", "skill_coverage",
                   "max_concurrency_feasibility", "invalid_phase_reference",
                   "skill_coverage_gap", "max_concurrency_violation"}
    /\ f.affectedRows = <<row>>
    /\ SeqToSet(f.affectedColumns)
          \subseteq {"PreferredPhases", "Duration", "RequiredSkills",
                     "MaxConcurrent"}

\* a load warning, computed over all tasks
IsLoadWarning(f) ==
    /\ f.type \in {"overloaded_worker", "phase_slot_saturation"}
    /\ f.severity = "warning"

\* an unknown_reference for a client row that had one before
IsReissued(f, old) ==
    /\ f.type = "unknown_reference"
    /\ \E k \in 1..Len(old) :
          /\ old[k].type = "unknown_reference"
          /\ old[k].affectedRows = f.affectedRows

ReportAdded ==
    /\ nActions' = nActions
    /\ \/ Len(reports') = Len(reports) + 1
       \/ Len(xreports') = Len(xreports) + 1

C9_NeverThrows ==
    /\ \A n \in 1..Len(reports) : ~reports[n].threw
    /\ \A n \in 1..Len(xreports) : ~xreports[n].threw

KindsOf(findings) == {findings[k].type : k \in 1..Len(findings)}

\* C10: groupValidationErrors returns exactly one group per kind of the
\* input findings, a group's count is the number of input findings of its
\* kind, and the counts add up to the length of the input
C10_GroupCounts ==
    \A n \in 1..Len(groupCalls) :
        LET groups == groupCalls[n]
        IN /\ Len(groups) = Cardinality(KindsOf(groupInput))
           /\ KindsOf(groups) = KindsOf(groupInput)
           /\ \A g \in 1..Len(groups) :
                 groups[g].count = Len(OfType(groupInput, groups[g].type))
           /\ Sum([g \in 1..Len(groups) |-> groups[g].count])
                 = Len(groupInput)

\* four findings of one kind and a group that counts all four
C10_Witness ==
    /\ Len(groupCalls) >= 1
    /\ Len(groupInput) = 4
    /\ Cardinality(KindsOf(groupInput)) = 1
    /\ groupCalls[1][1].count = 4

\* the position of the first finding of the kind in the input list
FirstSeen(findings, type) ==
    CHOOSE i \in 1..Len(findings) :
        /\ findings[i].type = type
        /\ \A j \in 1..(i - 1) : findings[j].type # type

\* C11: the groups returned by groupValidationErrors are ordered by
\* non-increasing count, and two groups of equal count appear in the order
\* in which their kinds were first seen in the input
C11_GroupOrder ==
    \A n \in 1..Len(groupCalls) :
        LET groups == groupCalls[n]
        IN \A g, h \in 1..Len(groups) :
              g < h =>
                 /\ groups[g].count >= groups[h].count
                 /\ groups[g].count = groups[h].count
                       => FirstSeen(groupInput, groups[g].type)
                             < FirstSeen(groupInput, groups[h].type)

\* three kinds: the kind seen last has the largest count and comes first,
\* the two kinds with equal count follow in first-seen order
C11_Witness ==
    /\ Len(groupCalls) >= 1
    /\ Len(groupCalls[1]) = 3
    /\ groupCalls[1][1].count = 2
    /\ groupCalls[1][2].count = 1
    /\ groupCalls[1][3].count = 1
    /\ FirstSeen(groupInput, groupCalls[1][1].type) = 3
    /\ FirstSeen(groupInput, groupCalls[1][2].type) = 1
    /\ FirstSeen(groupInput, groupCalls[1][3].type) = 2

\* the column names of the three datasets in ascending string order
ColumnNamesAscending ==
    << "AttributesJSON", "AvailableSlots", "Category", "ClientID",
       "ClientName", "Duration", "GroupTag", "MaxConcurrent",
       "MaxLoadPerPhase", "PreferredPhases", "PriorityLevel",
       "QualificationLevel", "RequestedTaskIDs", "RequiredSkills", "Skills",
       "TaskID", "TaskName", "WorkerGroup", "WorkerID", "WorkerName" >>

ColumnRank(name) ==
    CHOOSE i \in 1..Len(ColumnNamesAscending) : ColumnNamesAscending[i] = name

RowsOfKind(findings, type) ==
    UNION {SeqToSet(findings[k].affectedRows) :
              k \in {i \in 1..Len(findings) : findings[i].type = type}}

ColumnsOfKind(findings, type) ==
    UNION {SeqToSet(findings[k].affectedColumns) :
              k \in {i \in 1..Len(findings) : findings[i].type = type}}

\* C12: in every group affectedRows is the duplicate-free union of the
\* affectedRows of the findings of the kind in strictly ascending order, and
\* affectedColumns is the duplicate-free union of their affectedColumns,
\* in ascending order too
C12_UnionsSortedAscending ==
    \A n \in 1..Len(groupCalls) :
        \A g \in 1..Len(groupCalls[n]) :
            LET group == groupCalls[n][g]
                rows == group.affectedRows
                cols == group.affectedColumns
            IN /\ SeqToSet(rows) = RowsOfKind(groupInput, group.type)
               /\ \A i \in 1..(Len(rows) - 1) : rows[i] < rows[i + 1]
               /\ SeqToSet(cols) = ColumnsOfKind(groupInput, group.type)
               /\ \A i \in 1..(Len(cols) - 1) :
                     ColumnRank(cols[i]) < ColumnRank(cols[i + 1])

\* the detail strings of the findings of the kind that carry details
DetailsOfKind(findings, type) ==
    LET detailed == Filter(findings,
                           {k \in 1..Len(findings) :
                               /\ findings[k].type = type
                               /\ findings[k].details # NoDetails})
    IN [k \in 1..Len(detailed) |-> detailed[k].details]

\* C13: in every group examples has at most 3 entries, the detail strings
\* of the first (up to three) findings of the kind that carry details, in
\* input order
C13_ExamplesFirstThree ==
    \A n \in 1..Len(groupCalls) :
        \A g \in 1..Len(groupCalls[n]) :
            LET group == groupCalls[n][g]
                details == DetailsOfKind(groupInput, group.type)
            IN /\ Len(group.examples) <= 3
               /\ group.examples =
                     SubSeq(details, 1,
                            IF Len(details) < 3 THEN Len(details) ELSE 3)

\* four findings of one kind carry details, the fourth is not an example
C13_Witness ==
    /\ Len(groupCalls) >= 1
    /\ Len(groupCalls[1]) = 1
    /\ Len(DetailsOfKind(groupInput, groupCalls[1][1].type)) = 4
    /\ Len(groupCalls[1][1].examples) = 3
    /\ groupCalls[1][1].examples[1] # groupCalls[1][1].examples[2]
    /\ groupInput[4].details # groupInput[3].details

\* the findings of the list about exactly this row and this column
AboutRowColumn(findings, row, column) ==
    Filter(findings, {k \in 1..Len(findings) :
                         /\ findings[k].affectedRows = <<row>>
                         /\ findings[k].affectedColumns = <<column>>})

\* C14: validateOutOfRange emits exactly one out_of_range error per
\* violating row and none for other rows: for client row i iff
\* PriorityLevel is outside [1,5], on column PriorityLevel, for task row j
\* iff Duration < 1, on column Duration; a report with such an error is
\* not valid
C14_OutOfRange ==
    \A n \in 1..Len(reports) :
        LET found == OfType(reports[n].errors, "out_of_range")
            badClients == {i \in 1..Len(clients) :
                              clients[i].PriorityLevel \notin 1..5}
            badTasks == {j \in 1..Len(tasks) : tasks[j].Duration < 1}
        IN /\ ~reports[n].threw
           /\ \A i \in 1..Len(clients) :
                 Len(AboutRowColumn(found, i - 1, "PriorityLevel"))
                    = IF i \in badClients THEN 1 ELSE 0
           /\ \A j \in 1..Len(tasks) :
                 Len(AboutRowColumn(found, j - 1, "Duration"))
                    = IF j \in badTasks THEN 1 ELSE 0
           /\ Len(found) = Cardinality(badClients) + Cardinality(badTasks)
           /\ found # <<>> => ~reports[n].isValid

\* the single client C1 with PriorityLevel 6: one error on row 0
C14_Witness ==
    /\ Len(reports) >= 1
    /\ Len(clients) = 1
    /\ clients[1].ClientID = sC1
    /\ clients[1].PriorityLevel = 6
    /\ tasks = <<>>
    /\ Len(OfType(reports[1].errors, "out_of_range")) = 1
    /\ OfType(reports[1].errors, "out_of_range")[1].affectedRows = <<0>>
    /\ ~reports[1].isValid

\* the text is a bracketed, comma-separated list of integers
IsIntegerArrayText(v) ==
    LET s == Trim(v)
        inner == SubSeq(s, 2, Len(s) - 1)
        pieces == MapTrim(Split(inner, {","}))
        IsInteger(p) ==
            \/ AllDigits(p)
            \/ Len(p) > 1 /\ Head(p) = "-" /\ AllDigits(Tail(p))
    IN /\ v # Undefined
       /\ Len(s) >= 2
       /\ s[1] = "["
       /\ s[Len(s)] = "]"
       /\ \/ Trim(inner) = <<>>
          \/ \A i \in 1..Len(pieces) : IsInteger(pieces[i])

\* the text is a range a-b with a <= b
IsOrderedRangeText(v) ==
    LET s == Trim(v)
    IN /\ v # Undefined
       /\ \E k \in 1..Len(s) :
             /\ s[k] = "-"
             /\ AllDigits(SubSeq(s, 1, k - 1))
             /\ AllDigits(SubSeq(s, k + 1, Len(s)))
             /\ DigitsVal(SubSeq(s, 1, k - 1))
                   <= DigitsVal(SubSeq(s, k + 1, Len(s)))

\* C15: validateMalformedLists emits exactly one malformed_list error for
\* a worker row iff AvailableSlots is not a bracketed array of integers,
\* and exactly one for a task row iff PreferredPhases is neither a
\* bracketed array of integers nor a range a-b with a <= b
C15_MalformedLists ==
    \A n \in 1..Len(reports) :
        ~reports[n].threw =>
            LET found == OfType(reports[n].errors, "malformed_list")
            IN /\ \A i \in 1..Len(workers) :
                     Len(AboutRowColumn(found, i - 1, "AvailableSlots"))
                        = IF IsIntegerArrayText(Get(workers[i],
                                                    "AvailableSlots"))
                          THEN 0 ELSE 1
               /\ \A j \in 1..Len(tasks) :
                     Len(AboutRowColumn(found, j - 1, "PreferredPhases"))
                        = IF \/ IsIntegerArrayText(Get(tasks[j],
                                                       "PreferredPhases"))
                             \/ IsOrderedRangeText(Get(tasks[j],
                                                       "PreferredPhases"))
                          THEN 0 ELSE 1

\* the required columns the first record of the dataset lacks
MissingOf(rows, required) ==
    IF rows = <<>> THEN {}
    ELSE {required[i] : i \in 1..Len(required)} \ DOMAIN rows[1]

\* per dataset that lacks columns, in the order clients, workers, tasks,
\* the set of the columns it lacks
ExpectedMissing ==
    LET all == << MissingOf(clients, requiredClientColumns),
                  MissingOf(workers, requiredWorkerColumns),
                  MissingOf(tasks, requiredTaskColumns) >>
    IN Filter(all, {d \in 1..3 : all[d] # {}})

\* the column sets of the missing_columns errors of a report
ReportedMissing(rep) ==
    LET found == OfType(rep.errors, "missing_columns")
    IN [k \in 1..Len(found) |-> SeqToSet(found[k].affectedColumns)]

\* C16: for each non-empty dataset whose first record lacks required
\* columns validateAll returns a report with exactly one missing_columns
\* error for the dataset, its affectedColumns the missing columns; a
\* dataset with all columns, or an empty one, has no such error
C16_MissingColumns ==
    \A n \in 1..Len(reports) :
        /\ ~reports[n].threw
        /\ ReportedMissing(reports[n]) = ExpectedMissing

EndsWith(s, suffix) ==
    /\ Len(s) >= Len(suffix)
    /\ SubSeq(s, Len(s) - Len(suffix) + 1, Len(s)) = suffix

StartsWith(s, prefix) ==
    /\ Len(s) >= Len(prefix)
    /\ SubSeq(s, 1, Len(prefix)) = prefix

SlotSet(worker) == SeqToSet(parseSlots(Get(worker, "AvailableSlots")))

PhaseSet(task) == SeqToSet(parsePhases(Get(task, "PreferredPhases")))

\* the trimmed, lowercased, non-empty tokens of a skill list
SkillSet(str) == SeqToSet(SkillTokensOrNone(str)) \ {<<>>}

\* the worker has every skill the task requires
Satisfies(worker, task) ==
    SkillSet(Get(task, "RequiredSkills")) \subseteq SkillSet(Get(worker, "Skills"))

\* the tasks the worker's skills satisfy that prefer the phase
EligibleFor(worker, phase) ==
    {j \in 1..Len(tasks) :
        Satisfies(worker, tasks[j]) /\ phase \in PhaseSet(tasks[j])}

\* the overloaded_worker warnings for the worker row and the phase
OverloadedFor(findings, i, phase) ==
    Filter(findings, {k \in 1..Len(findings) :
        /\ findings[k].type = "overloaded_worker"
        /\ findings[k].affectedRows = <<i - 1>>
        /\ EndsWith(findings[k].message,
                    <<" tasks in phase ">> \o NumStr(phase))})

OverloadedPairs ==
    {pair \in (1..Len(workers)) \X (UNION {SlotSet(workers[i]) :
                                              i \in 1..Len(workers)}) :
        /\ pair[2] \in SlotSet(workers[pair[1]])
        /\ Cardinality(EligibleFor(workers[pair[1]], pair[2]))
              > workers[pair[1]].MaxLoadPerPhase}

\* C17: with workers and tasks non-empty the cross-file engine emits
\* exactly one overloaded_worker warning for each (worker, phase) pair,
\* phase in the worker's slots, for which the tasks the worker's skills
\* satisfy and that prefer the phase outnumber the worker's
\* MaxLoadPerPhase, whatever non-negative value that has, and none for
\* any other pair
C17_OverloadedWorkers ==
    \A n \in 1..Len(xreports) :
        (workers # <<>> /\ tasks # <<>>) =>
            LET found == OfType(xreports[n].warnings, "overloaded_worker")
            IN /\ \A pair \in OverloadedPairs :
                     Len(OverloadedFor(found, pair[1], pair[2])) = 1
               /\ Len(found) = Cardinality(OverloadedPairs)

\* the workers whose skills cover the task's required skills and whose
\* slots intersect the task's preferred phases
QualifyingWorkers(task) ==
    {i \in 1..Len(workers) :
        /\ Satisfies(workers[i], task)
        /\ SlotSet(workers[i]) \cap PhaseSet(task) # {}}

\* the max_concurrency_violation warnings for the task row
ConcurrencyFor(findings, j) ==
    Filter(findings, {k \in 1..Len(findings) :
        /\ findings[k].type = "max_concurrency_violation"
        /\ findings[k].affectedRows = <<j - 1>>})

\* C18: with workers and tasks non-empty, for each task, tasks that
\* require no skills included, the cross-file engine emits a
\* max_concurrency_violation warning iff MaxConcurrent is greater than the
\* number of workers whose skills cover the required skills and whose
\* slots intersect the preferred phases, and the finding lists exactly
\* the ids of those workers
C18_MaxConcurrency ==
    \A n \in 1..Len(xreports) :
        (workers # <<>> /\ tasks # <<>>) =>
            \A j \in 1..Len(tasks) :
                LET found == ConcurrencyFor(xreports[n].warnings, j)
                    qualifying == QualifyingWorkers(tasks[j])
                    ids == [k \in 1..Len(workers) |-> workers[k].WorkerID]
                IN /\ found # <<>>
                      <=> tasks[j].MaxConcurrent > Cardinality(qualifying)
                   /\ \A k \in 1..Len(found) :
                         found[k].details =
                            <<"Qualified workers: ">>
                            \o JoinIds(Filter(ids, qualifying))

\* the sum of Duration over the tasks whose preferred phases include p
RequiredIn(p) ==
    Sum([j \in 1..Len(tasks) |->
            IF p \in PhaseSet(tasks[j]) THEN tasks[j].Duration ELSE 0])

\* the number of workers whose available slots include p
AvailableIn(p) ==
    Cardinality({i \in 1..Len(workers) : p \in SlotSet(workers[i])})

\* the phase_slot_saturation warnings for the phase
SaturationFor(findings, p) ==
    Filter(findings, {k \in 1..Len(findings) :
        /\ findings[k].type = "phase_slot_saturation"
        /\ StartsWith(findings[k].message,
                      <<"Phase ">> \o NumStr(p) \o <<" has ">>)})

AllPhases ==
    UNION ({PhaseSet(tasks[j]) : j \in 1..Len(tasks)}
           \cup {SlotSet(workers[i]) : i \in 1..Len(workers)})

\* C19: with workers and tasks non-empty the cross-file engine emits one
\* phase_slot_saturation warning for phase p iff the sum of Duration over
\* the tasks preferring p is greater than the number of workers whose
\* slots include p, and the deficit it reports is required minus available
C19_PhaseSlotSaturation ==
    \A n \in 1..Len(xreports) :
        (workers # <<>> /\ tasks # <<>>) =>
            LET all == OfType(xreports[n].warnings, "phase_slot_saturation")
            IN /\ \A p \in AllPhases :
                     LET found == SaturationFor(all, p)
                     IN /\ Len(found)
                             = IF RequiredIn(p) > AvailableIn(p) THEN 1 ELSE 0
                        /\ \A k \in 1..Len(found) :
                              EndsWith(found[k].details,
                                       <<", Deficit=">>
                                       \o NumStr(RequiredIn(p) - AvailableIn(p)))
               /\ Len(all) = Cardinality({p \in AllPhases :
                                            RequiredIn(p) > AvailableIn(p)})

\* the warnings of the kind for the task row
CoverageFor(findings, type, j) ==
    Filter(findings, {k \in 1..Len(findings) :
        /\ findings[k].type = type
        /\ findings[k].affectedRows = <<j - 1>>})

\* the union of the workers' trimmed, lowercased skill tokens
AllWorkerSkills ==
    UNION {SkillSet(Get(workers[i], "Skills")) : i \in 1..Len(workers)}

\* a required skill of the task, trimmed and lowercased, is no worker's
HasUncoveredSkill(task) ==
    ~(SkillSet(Get(task, "RequiredSkills")) \subseteq AllWorkerSkills)

\* C20: skill coverage is decided case-insensitively: a task row gets a
\* skill-coverage warning (skill_coverage of ValidationEngine, and, with
\* workers and tasks non-empty, skill_coverage_gap of the cross-file
\* engine) iff one of its required skill tokens, trimmed and lowercased,
\* is absent from the union of the workers' trimmed and lowercased skill
\* tokens; a skill that differs from a worker's only in case is covered
C20_SkillCoverageIgnoresCase ==
    /\ \A n \in 1..Len(reports) :
          \A j \in 1..Len(tasks) :
              CoverageFor(reports[n].warnings, "skill_coverage", j) # <<>>
                 <=> HasUncoveredSkill(tasks[j])
    /\ \A n \in 1..Len(xreports) :
          (workers # <<>> /\ tasks # <<>>) =>
              \A j \in 1..Len(tasks) :
                  CoverageFor(xreports[n].warnings, "skill_coverage_gap", j)
                     # <<>>
                     <=> HasUncoveredSkill(tasks[j])

\* the findings of the kind about the task row
PhaseFindingsFor(findings, j) ==
    Filter(findings, {k \in 1..Len(findings) :
        /\ findings[k].type = "invalid_phase_reference"
        /\ findings[k].affectedRows = <<j - 1>>})

\* the parsed preferred phases of the task that are in no worker's parsed
\* slots, in the order of the task's list
UnstaffedPhases(task) ==
    LET pp == parsePhases(Get(task, "PreferredPhases"))
        staffed == UNION {SlotSet(workers[i]) : i \in 1..Len(workers)}
    IN Filter(pp, {k \in 1..Len(pp) : pp[k] \notin staffed})

\* C21: with workers and tasks non-empty, the cross-file engine emits an
\* invalid_phase_reference error for task row j iff a parsed preferred
\* phase of the task is in no worker's parsed slots; there is one such
\* finding for the row and its message lists exactly those phases
C21_InvalidPhaseReferences ==
    \A n \in 1..Len(xreports) :
        (workers # <<>> /\ tasks # <<>>) =>
            \A j \in 1..Len(tasks) :
                LET found == PhaseFindingsFor(xreports[n].errors, j)
                    missing == UnstaffedPhases(tasks[j])
                IN IF missing = <<>> THEN found = <<>>
                   ELSE /\ Len(found) = 1
                        /\ found[1].severity = "error"
                        /\ found[1].message =
                             <<"Task ">> \o Get(tasks[j], "TaskID")
                             \o <<" prefers phases ">>
                             \o NumList(missing, <<",">>)
                             \o <<", but no worker is available in those phases">>

\* the range 1-3 against workers available in 1 and 2 only: phase 3 is
\* reported, and a second worker's slots were needed to staff phase 2
C21_Witness ==
    /\ Len(workers) = 2
    /\ SlotSet(workers[1]) = {1}
    /\ SlotSet(workers[2]) = {1, 2}
    /\ \E n \in 1..Len(xreports) : \E j \in 1..Len(tasks) :
          /\ PhaseSet(tasks[j]) = {1, 2, 3}
          /\ UnstaffedPhases(tasks[j]) = <<3>>
          /\ Len(PhaseFindingsFor(xreports[n].errors, j)) = 1

\* the slot restriction rules of the engine's rule list, in order
SlotRestrictionRules ==
    Filter(rules, {i \in 1..Len(rules) : rules[i].type = "slotRestriction"})

\* the report has one slot_restriction_violation warning per slot
\* restriction rule, in the order of the rules, each naming its rule
EachSlotRuleReported(xrep) ==
    LET found == OfType(XFindingsOf(xrep), "slot_restriction_violation")
    IN /\ Len(found) = Len(SlotRestrictionRules)
       /\ \A k \in 1..Len(found) :
             /\ found[k].severity = "warning"
             /\ found[k].message =
                   <<"Slot restriction rule \"">>
                   \o Get(SlotRestrictionRules[k], "name")
                   \o <<"\" validation not yet implemented">>

\* C22 as stated: whatever the datasets contain, validateAll of the
\* cross-file engine returns exactly one slot_restriction_violation warning
\* for every slotRestriction rule of its rule list, naming the rule
C22_EverySlotRuleReported ==
    \A n \in 1..Len(xreports) : EachSlotRuleReported(xreports[n])

\* C22 amended: when at least two of the three datasets are non-empty,
\* validateAll of the cross-file engine returns exactly one
\* slot_restriction_violation warning for every slotRestriction rule of its
\* rule list, naming the rule; with fewer it returns none
C22_SlotRulesReportedWhenActive ==
    \A n \in 1..Len(xreports) :
        IF NonEmptyDatasets >= 2
        THEN EachSlotRuleReported(xreports[n])
        ELSE OfType(XFindingsOf(xreports[n]), "slot_restriction_violation")
                = <<>>

\* two slot restriction rules with a co-run rule among them, two datasets,
\* and a report with the two warnings
C22_Witness ==
    /\ NonEmptyDatasets >= 2
    /\ Len(SlotRestrictionRules) = 2
    /\ Len(rules) = 3
    /\ Len(xreports) >= 1
    /\ Len(OfType(XFindingsOf(xreports[1]), "slot_restriction_violation")) = 2

\* the closed taxonomy of finding kinds, by severity
ErrorKinds ==
    {"missing_columns", "duplicate_ids", "malformed_list", "broken_json",
     "out_of_range", "unknown_reference", "invalid_phase_reference",
     "circular_corun_dependency"}
WarningKinds ==
    {"skill_coverage_gap", "max_concurrency_violation", "overloaded_worker",
     "phase_slot_saturation", "slot_restriction_violation"}

\* the finding's kind is in the taxonomy and its severity is the kind's
InTaxonomy(f) ==
    \/ f.type \in ErrorKinds /\ f.severity = "error"
    \/ f.type \in WarningKinds /\ f.severity = "warning"

AllOf(findings, P(_)) == \A k \in 1..Len(findings) : P(findings[k])

IsError(f) == f.severity = "error"
IsWarning(f) == f.severity = "warning"

\* C23: every finding of ValidationEngine.validateAll and of
\* CrossFileValidationEngine.validateAll has a kind of the closed
\* taxonomy and the severity the taxonomy gives the kind; the findings of
\* an errors list have severity error, those of a warnings list warning
C23_ClosedTaxonomy ==
    /\ \A n \in 1..Len(reports) :
          ~reports[n].threw =>
              /\ AllOf(FindingsOf(reports[n]), InTaxonomy)
              /\ AllOf(reports[n].errors, IsError)
              /\ AllOf(reports[n].warnings, IsWarning)
    /\ \A n \in 1..Len(xreports) :
          /\ AllOf(XFindingsOf(xreports[n]), InTaxonomy)
          /\ AllOf(xreports[n].errors, IsError)
          /\ AllOf(xreports[n].warnings, IsWarning)

\* no upload handler is between two of its steps
AllIdle == \A ft \in FileTypes : pc[ft] = Idle

\* C24: validation runs on every data change: after any sequence of store
\* operations, with no upload in progress, the report getValidationErrors
\* returns holds exactly the findings of validating the datasets now in
\* the store: none about rows or references the data no longer has, and
\* none of the current data's missing
C24_ReportFollowsData ==
    AllIdle =>
        LET current == validateAll(clients, workers, tasks)
        IN ~current.threw =>
              /\ SeqToSet(getValidationErrors.errors)
                    = SeqToSet(current.errors)
              /\ SeqToSet(getValidationErrors.warnings)
                    = SeqToSet(current.warnings)

\* C25: integer-set parsing round-trips: a non-empty finite set of
\* positive integers written in the bracketed array notation is parsed by
\* parsePhases and by parseSlots to exactly its elements, each once, and
\* isValidArrayString accepts the text
C25_IntegerSetRoundTrip ==
    \A n \in 1..Len(listCalls) :
        /\ SeqToSet(listCalls[n].phases) = SeqToSet(listInput.items)
        /\ Len(listCalls[n].phases) = Len(listInput.items)
        /\ SeqToSet(listCalls[n].slots) = SeqToSet(listInput.items)
        /\ Len(listCalls[n].slots) = Len(listInput.items)
        /\ listCalls[n].accepted

\* the set {1, 10, 21}, written as "[21, 1, 10]" and parsed back
C25_Witness ==
    /\ Len(listCalls) >= 1
    /\ listInput.items = <<21, 1, 10>>
    /\ listCalls[1].text =
          <<"[", "2", "1", ",", " ", "1", ",", " ", "1", "0", "]">>
    /\ listCalls[1].phases = <<21, 1, 10>>
    /\ listCalls[1].slots = <<21, 1, 10>>

\* no two entries of the list are equal
NoRepeats(arr) ==
    \A i, j \in 1..Len(arr) : i # j => arr[i] # arr[j]

\* no finding kind has two groups in the list
OneGroupPerKind(groups) ==
    \A g, h \in 1..Len(groups) : g # h => groups[g].type # groups[h].type

\* C26: in every reachable store state the merged report of
\* getValidationErrors has at most one group per finding kind in
\* groupedErrors and in groupedWarnings, and no finding (same kind, same
\* row, same message) twice in errors or in warnings
C26_MergedReportWithoutRepeats ==
    /\ OneGroupPerKind(getValidationErrors.groupedErrors)
    /\ OneGroupPerKind(getValidationErrors.groupedWarnings)
    /\ NoRepeats(getValidationErrors.errors)
    /\ NoRepeats(getValidationErrors.warnings)

\* the zone awaits nothing: no handler of it is between two steps and no
\* mapping dialog is waiting for Cancel or Confirm
Settled(fileType) ==
    /\ pc[fileType] = Idle
    /\ ~mappedHeaders[fileType]

\* C27: an upload zone never stays stuck in processing: once the
\* continuation of a drop has run to its end (the header mapping failed,
\* or the user pressed Cancel, or pressed Confirm and processing succeeded
\* or failed), the dataset's uploadState has isProcessing = false
C27_NeverStuckProcessing ==
    \A fileType \in FileTypes :
        Settled(fileType) => ~uploadState[fileType].isProcessing

\* the step ends onConfirmMapping for the zone with an error shown
ConfirmFailed(fileType) ==
    /\ pc[fileType].at = "onConfirmMapping"
    /\ pc'[fileType] = Idle
    /\ uploadState'[fileType].error # NoError

\* C28: a failed upload changes no data: when the file processing of
\* onConfirmMapping returns errors or throws, the three datasets of the
\* store and the zone's stored validationResult are as before the
\* confirm, and uploadState has the error set and isProcessing = false
C28_FailedUploadChangesNoData ==
    [][\A fileType \in FileTypes :
          ConfirmFailed(fileType) =>
              /\ clients' = clients
              /\ workers' = workers
              /\ tasks' = tasks
              /\ uploadState'[fileType].validationResult
                    = uploadState[fileType].validationResult
              /\ uploadState'[fileType].data = uploadState[fileType].data
              /\ ~uploadState'[fileType].isProcessing
              /\ \A other \in FileTypes \ {fileType} :
                    uploadState'[other] = uploadState[other]]_vars

\* the clients zone holds the sample data, then a file with an unterminated
\* quote is dropped and confirmed: the confirm has failed and the sample
\* clients are still in the store
C28_Witness ==
    /\ clients = sampleClients
    /\ uploadState["clients"].file.kind = "csv"
    /\ uploadState["clients"].file.parseErrors # <<>>
    /\ uploadState["clients"].error # NoError
    /\ ~uploadState["clients"].isProcessing
    /\ pc["clients"] = Idle
    /\ mappedHeaders["clients"]

\* the datasets that have the column
DatasetsOfColumn(column) ==
    {ft \in FileTypes :
        Includes(CASE ft = "clients" -> requiredClientColumns
                   [] ft = "workers" -> requiredWorkerColumns
                   [] ft = "tasks" -> requiredTaskColumns,
                 column)}

\* the datasets the findings of the group are about, by their columns
DatasetsOfGroup(group) ==
    UNION {DatasetsOfColumn(group.affectedColumns[k]) :
              k \in 1..Len(group.affectedColumns)}

\* the rows of the dataset, as the engine was given them
RowsOfDataset(ft) ==
    CASE ft = "clients" -> clients
      [] ft = "workers" -> workers
      [] ft = "tasks" -> tasks

\* the group is about one dataset and every index of its affectedRows is
\* the index of a row of that dataset
AboutOneDataset(group) ==
    /\ Cardinality(DatasetsOfGroup(group)) <= 1
    /\ \A ft \in DatasetsOfGroup(group) :
          \A k \in 1..Len(group.affectedRows) :
              group.affectedRows[k] < Len(RowsOfDataset(ft))

\* C29: the row indices of a grouped finding refer to a single dataset: no
\* group returned by groupValidationErrors unions affectedRows of findings
\* about different datasets, and every index in a group's affectedRows is
\* the index of a row of the dataset the group is about
C29_GroupRowsOfOneDataset ==
    \A n \in 1..Len(reports) :
        ~reports[n].threw =>
            /\ AllOf(reports[n].groupedErrors, AboutOneDataset)
            /\ AllOf(reports[n].groupedWarnings, AboutOneDataset)

\* the rules of the store that CoRunRuleForm made: co-run rules with their
\* task ids under `tasks`
FormCoRunRules ==
    Filter(rules, {i \in 1..Len(rules) :
        /\ rules[i].type = "coRun"
        /\ "tasks" \in DOMAIN rules[i]})

\* C30: a co-run rule made by CoRunRuleForm with two or more task ids and
\* added to the store with addRule contributes, in the graph
\* validateCircularCoRunDependencies builds from the store's rules, an edge
\* in both directions between every two of its task ids
C30_FormRuleEdges ==
    \A i \in 1..Len(FormCoRunRules) :
        LET ids == FormCoRunRules[i].tasks
        IN Len(ids) >= 2 =>
              \A a, b \in SeqToSet(ids) :
                  a # b => /\ Includes(GraphKeys(rules), a)
                           /\ Includes(Neighbors(rules, a), b)
                           /\ Includes(Neighbors(rules, b), a)

=============================================================================
